---- MODULE Spec2Model ----
(***************************************************************************)
(* A model of the value layer of nvim-oxi: the byte buffer                 *)
(* (nvim-types/src/string.rs), the tagged union Object                     *)
(* (nvim-types/src/object.rs) and the non-owning views handed to foreign   *)
(* calls (nvim-oxi/src/api/global.rs).                                     *)
(*                                                                         *)
(* Memory is explicit.  The heap maps an address to a block that records   *)
(* how it was allocated (kind, capacity, contents) and every release made  *)
(* of it (the kind and capacity the releasing code assumed).  An Object is *)
(* its tag and the three machine words of the union ObjectData, so that a  *)
(* read through the wrong arm reinterprets the words as the code does.     *)
(***************************************************************************)
EXTENDS Integers, Sequences, FiniteSets, TLC

\* ------------------------------------------------------------- bounds
MaxAddr == 5        \* allocations a behaviour may make
MaxViews == 2       \* non-owning views alive at once
MaxArr == 2         \* longest array or dictionary built
MaxLen == 3         \* longest byte vector given to the byte-buffer machine
MaxSpare == 2       \* largest spare capacity of such a vector
MaxIter == 3        \* longest list given to Array::from_iter
MaxProcs == 2       \* elements the foreign call answers with
MaxRefs == 1        \* registry references luaL_ref may hand out
MaxHandles == 3     \* LuaFun handles alive at once
MaxDepth == 3       \* closure invocations nested at once

\* ------------------------------------------------------------- memory
Null == 0
\* A word of the union that no constructor wrote.
Uninit == 0 - 1024
\* The non-null pointer of a vector that holds no allocation.
Dangling == Null + 8

Addrs == {4096 * i : i \in 1..MaxAddr}

NoBlock == [st |-> "unalloc", kind |-> "none", cap |-> 0, data |-> <<>>, rel |-> <<>>]
\* The entry at Null is no block: it only logs the releases asked of the
\* null pointer.
EmptyHeap == [a \in Addrs \cup {Null} |-> NoBlock]
EmptyMem == [heap |-> EmptyHeap, ub |-> FALSE]

Unalloc(h) == {a \in Addrs : h[a].st = "unalloc"}
Live(h) == {a \in Addrs : h[a].st = "live"}
Fresh(h) == CHOOSE a \in Unalloc(h) : \A b \in Unalloc(h) : a <= b

\* The global allocator: a new block at an address never used before.
alloc(m, kind, cap, data) ==
    [m EXCEPT !.heap[Fresh(m.heap)] =
        [st |-> "live", kind |-> kind, cap |-> cap, data |-> data, rel |-> <<>>]]

\* Dropping Vec::from_raw_parts(p, _, cap): a vector of capacity 0 owns no
\* allocation; otherwise the block at p is released as `kind` with `cap`.
\* The system allocator ignores a release of the null pointer.  Releasing
\* anything else that is not a live block of that kind is undefined
\* behaviour.
dealloc(m, p, kind, cap) ==
    IF cap = 0 THEN m
    ELSE IF p = Null
    THEN [m EXCEPT !.heap[Null].rel = Append(@, [kind |-> kind, cap |-> cap])]
    ELSE IF p \in Addrs /\ m.heap[p].st # "unalloc"
    THEN [heap |-> [m.heap EXCEPT ![p].st = "freed",
                                  ![p].rel = Append(@, [kind |-> kind, cap |-> cap])],
          ub |-> m.ub \/ m.heap[p].st = "freed" \/ m.heap[p].kind # kind]
    ELSE [m EXCEPT !.ub = TRUE]

\* ------------------------------------------------------- byte buffer
\* A Vec<u8> about to be given away: its bytes and its capacity.
reserve_exact(vec, additional) ==
    IF vec.cap - Len(vec.bytes) >= additional THEN vec
    ELSE [vec EXCEPT !.cap = Len(vec.bytes) + additional]

from_bytes(m, vec) ==
    LET v1 == reserve_exact(vec, 1)
        v2 == [v1 EXCEPT !.bytes = Append(@, 0)]
        size == Len(v2.bytes) - 1
        data == Fresh(m.heap)
    IN  [m |-> alloc(m, "bytes", v2.cap, v2.bytes),
         s |-> [data |-> data, size |-> size]]

String_default == [data |-> Null, size |-> 0]

as_bytes(h, s) ==
    IF s.data = Null THEN <<>> ELSE SubSeq(h[s.data].data, 1, s.size)

\* [T]::to_owned: a vector of exactly the slice's length.
to_owned(bytes) == [bytes |-> bytes, cap |-> Len(bytes)]

String_clone(m, s) == from_bytes(m, to_owned(as_bytes(m.heap, s)))

String_drop(m, s) ==
    dealloc(m, s.data, "bytes", IF s.size = Uninit THEN Uninit ELSE s.size + 1)

\* Vec<u8>: the pointer, the length and the capacity it will release with.
Vec_new == [ptr |-> Dangling, len |-> 0, cap |-> 0]
Vec_from_raw_parts(ptr, len, cap) == [ptr |-> ptr, len |-> len, cap |-> cap]
Vec_bytes(h, v) == IF v.len = 0 THEN <<>> ELSE SubSeq(h[v.ptr].data, 1, v.len)
Vec_drop(m, v) == dealloc(m, v.ptr, "bytes", v.cap)

\* A plausible slip: the terminator is counted into the vector.
into_bytes_with_terminator(s) ==
    IF s.data = Null THEN Vec_new
    ELSE Vec_from_raw_parts(s.data, s.size + 1, s.size + 1)

\* The String is wrapped in ManuallyDrop: the vector takes its buffer over.
into_bytes(s) ==
    IF s.data = Null THEN Vec_new
    ELSE Vec_from_raw_parts(s.data, s.size, s.size)

\* into_bytes takes self by value and wraps it in ManuallyDrop only when
\* data is not null: in the null branch self is dropped on return.
into_bytes_self(m, s) == IF s.data = Null THEN String_drop(m, s) ELSE m

\* derive(PartialOrd, Ord): the fields in their order, the data pointer by
\* its address, then the size.
String_cmp(a, b) ==
    IF a.data < b.data THEN "Less"
    ELSE IF a.data > b.data THEN "Greater"
    ELSE IF a.size < b.size THEN "Less"
    ELSE IF a.size > b.size THEN "Greater"
    ELSE "Equal"

\* --------------------------------------------------------------- text
\* UTF-8 as std::str::from_utf8 validates it: the length of the well-formed
\* sequence at the head of bs, or 0 when there is none.
IsCont(b) == b >= 128 /\ b <= 191
Second3(b1, b2) ==
    IF b1 = 224 THEN b2 >= 160 /\ b2 <= 191
    ELSE IF b1 = 237 THEN b2 >= 128 /\ b2 <= 159
    ELSE IsCont(b2)
Second4(b1, b2) ==
    IF b1 = 240 THEN b2 >= 144 /\ b2 <= 191
    ELSE IF b1 = 244 THEN b2 >= 128 /\ b2 <= 143
    ELSE IsCont(b2)
Utf8Len(bs) ==
    LET n == Len(bs)
        b1 == bs[1]
    IN  IF b1 <= 127 THEN 1
        ELSE IF b1 >= 194 /\ b1 <= 223
             THEN IF n >= 2 /\ IsCont(bs[2]) THEN 2 ELSE 0
        ELSE IF b1 >= 224 /\ b1 <= 239
             THEN IF n >= 3 /\ Second3(b1, bs[2]) /\ IsCont(bs[3]) THEN 3 ELSE 0
        ELSE IF b1 >= 240 /\ b1 <= 244
             THEN IF n >= 4 /\ Second4(b1, bs[2]) /\ IsCont(bs[3]) /\ IsCont(bs[4])
                  THEN 4 ELSE 0
        ELSE 0

\* The bytes from_utf8_lossy replaces by one U+FFFD: the longest prefix of
\* bs that starts a well-formed sequence, and at least one byte.
InvalidLen(bs) ==
    LET n == Len(bs)
        b1 == bs[1]
    IN  IF b1 >= 224 /\ b1 <= 239
        THEN IF n >= 2 /\ Second3(b1, bs[2]) THEN 2 ELSE 1
        ELSE IF b1 >= 240 /\ b1 <= 244
        THEN IF n >= 2 /\ Second4(b1, bs[2])
             THEN IF n >= 3 /\ IsCont(bs[3]) THEN 3 ELSE 2
             ELSE 1
        ELSE 1

Replacement == <<239, 191, 189>>

RECURSIVE utf8_valid(_), utf8_lossy(_)
utf8_valid(bs) ==
    \/ bs = <<>>
    \/ /\ Utf8Len(bs) > 0
       /\ utf8_valid(SubSeq(bs, Utf8Len(bs) + 1, Len(bs)))

utf8_lossy(bs) ==
    IF bs = <<>> THEN <<>>
    ELSE IF Utf8Len(bs) > 0
    THEN SubSeq(bs, 1, Utf8Len(bs)) \o utf8_lossy(SubSeq(bs, Utf8Len(bs) + 1, Len(bs)))
    ELSE Replacement \o utf8_lossy(SubSeq(bs, InvalidLen(bs) + 1, Len(bs)))

TextOk(op, bytes) == [op |-> op, k |-> "ok", bytes |-> bytes]
TextErr(op) == [op |-> op, k |-> "invalid_utf8", bytes |-> <<>>]
NoText == [op |-> "none", k |-> "none", bytes |-> <<>>]

from_utf8(op, bytes) == IF utf8_valid(bytes) THEN TextOk(op, bytes) ELSE TextErr(op)

\* A plausible slip: the strict conversion goes through the lossy one.
as_str_lossy(h, s) == TextOk("as_str", utf8_lossy(as_bytes(h, s)))

as_str(h, s) == from_utf8("as_str", as_bytes(h, s))
to_string_lossy(h, s) == TextOk("to_string_lossy", utf8_lossy(as_bytes(h, s)))
\* into_string and TryFrom<String> for StdString: the vector of into_bytes
\* goes into the text, or into the error.
into_string(h, s) == from_utf8("into_string", Vec_bytes(h, into_bytes(s)))
StdString_try_from(h, s) == from_utf8("try_from", Vec_bytes(h, into_bytes(s)))

\* ------------------------------------------------------------ Object
Tags == {"nil", "boolean", "integer", "float", "string", "array", "dictionary", "luaref"}

\* A value as its tag and the three words of ObjectData (repr(C) union):
\* boolean is the low byte of word 1; integer, float and luaref are word 1;
\* string is (data, size); array and dictionary are (items, size, capacity).
NoObj == [type |-> "none", w |-> <<0, 0, 0>>]

Object_nil == [type |-> "nil", w |-> <<0, Uninit, Uninit>>]
from_Boolean(b) == [type |-> "boolean", w |-> <<IF b THEN 1 ELSE 0, Uninit, Uninit>>]
from_Integer(i) == [type |-> "integer", w |-> <<i, Uninit, Uninit>>]
from_Float(f) == [type |-> "float", w |-> <<f, Uninit, Uninit>>]
from_String(s) == [type |-> "string", w |-> <<s.data, s.size, Uninit>>]
from_Array(c) == [type |-> "array", w |-> <<c.items, c.size, c.capacity>>]
from_Dictionary(c) == [type |-> "dictionary", w |-> <<c.items, c.size, c.capacity>>]
from_LuaFun(r) == [type |-> "luaref", w |-> <<r, Uninit, Uninit>>]

\* Reads of one arm of the union, whatever the tag says.
data_boolean(o) == o.w[1] % 256
data_integer(o) == o.w[1]
data_float(o) == o.w[1]
data_luaref(o) == o.w[1]
into_string_unchecked(o) == [data |-> o.w[1], size |-> o.w[2]]
into_array_unchecked(o) == [items |-> o.w[1], size |-> o.w[2], capacity |-> o.w[3]]
into_dict_unchecked(o) == [items |-> o.w[1], size |-> o.w[2], capacity |-> o.w[3]]

\* Float payloads are four bit patterns: 0 is 0.0, 1 is -0.0, 2 is 1.5 and
\* 3 is NaN; f64's == makes the zeros equal and NaN unequal to itself.
Floats == 0..3
f64_eq(x, y) == x # 3 /\ y # 3 /\ (x = y \/ (x \in {0, 1} /\ y \in {0, 1}))

\* The items of a collection block hold Objects (an Array) or key/value
\* pairs (a Dictionary): the key's String and the value's Object.
ItemKind(tag) == IF tag = "dictionary" THEN "kvs" ELSE "objs"

\* Collection<T>::from(Vec<T>): the vector's buffer becomes the items.
Collection_from_vec(m, kind, elems) ==
    IF Len(elems) = 0
    THEN [m |-> m, c |-> [items |-> Dangling, size |-> 0, capacity |-> 0]]
    ELSE [m |-> alloc(m, kind, Len(elems), elems),
          c |-> [items |-> Fresh(m.heap), size |-> Len(elems), capacity |-> Len(elems)]]

\* Whether (items, size) describes the elements a live block of `kind` holds.
WellFormed(h, c, kind) ==
    /\ c.items \in Addrs
    /\ h[c.items].st = "live"
    /\ h[c.items].kind = kind
    /\ c.size = Len(h[c.items].data)

RECURSIVE Object_drop(_, _), drop_items(_, _, _)

\* Dropping Vec::from_raw_parts(items, size, capacity): every element in
\* order, then the buffer.  Elements read from memory that holds no such
\* elements are garbage: undefined behaviour.
Collection_drop(m, c, kind) ==
    LET m1 == IF WellFormed(m.heap, c, kind)
              THEN drop_items(m, m.heap[c.items].data, kind)
              ELSE IF c.size = 0 THEN m
              ELSE [m EXCEPT !.ub = TRUE]
    IN  dealloc(m1, c.items, kind, c.capacity)

drop_items(m, items, kind) ==
    IF items = <<>> THEN m
    ELSE LET e == Head(items)
             m1 == IF kind = "kvs"
                   THEN Object_drop(String_drop(m, e.key), e.value)
                   ELSE Object_drop(m, e)
         IN  drop_items(m1, Tail(items), kind)

\* A plausible slip: the string arm is forgotten and its buffer leaks.
Object_drop_forgets_string(m, o) ==
    CASE o.type = "array" -> Collection_drop(m, into_array_unchecked(o), "objs")
      [] o.type = "dictionary" -> Collection_drop(m, into_dict_unchecked(o), "kvs")
      [] OTHER -> m

Object_drop(m, o) ==
    CASE o.type = "string" -> String_drop(m, into_string_unchecked(o))
      [] o.type = "array" -> Collection_drop(m, into_array_unchecked(o), "objs")
      [] o.type = "dictionary" -> Collection_drop(m, into_dict_unchecked(o), "kvs")
      [] OTHER -> m

RECURSIVE Object_clone(_, _), clone_items(_, _, _, _)

\* Collection<T>::clone: a vector of the clones of the elements.
Collection_clone(m, c, kind) ==
    LET r == clone_items(m, IF c.size = 0 THEN <<>> ELSE m.heap[c.items].data, kind, <<>>)
    IN  Collection_from_vec(r.m, kind, r.out)

clone_items(m, items, kind, out) ==
    IF items = <<>> THEN [m |-> m, out |-> out]
    ELSE LET e == Head(items)
         IN  IF kind = "kvs"
             THEN LET k == String_clone(m, e.key)
                      v == Object_clone(k.m, e.value)
                  IN  clone_items(v.m, Tail(items), kind,
                                  Append(out, [key |-> k.s, value |-> v.o]))
             ELSE LET v == Object_clone(m, e)
                  IN  clone_items(v.m, Tail(items), kind, Append(out, v.o))

\* A plausible slip: the string arm is copied like the scalar arms, so the
\* clone points at the original's buffer.
Object_clone_shallow_string(m, o) ==
    CASE o.type = "array" ->
            LET r == Collection_clone(m, into_array_unchecked(o), "objs")
            IN  [m |-> r.m, o |-> from_Array(r.c)]
      [] o.type = "dictionary" ->
            LET r == Collection_clone(m, into_dict_unchecked(o), "kvs")
            IN  [m |-> r.m, o |-> from_Dictionary(r.c)]
      [] OTHER -> [m |-> m, o |-> o]

Object_clone(m, o) ==
    CASE o.type = "nil" -> [m |-> m, o |-> Object_nil]
      [] o.type = "boolean" ->
            [m |-> m, o |-> [type |-> o.type, w |-> <<data_boolean(o), Uninit, Uninit>>]]
      [] o.type = "integer" ->
            [m |-> m, o |-> [type |-> o.type, w |-> <<data_integer(o), Uninit, Uninit>>]]
      [] o.type = "float" ->
            [m |-> m, o |-> [type |-> o.type, w |-> <<data_float(o), Uninit, Uninit>>]]
      [] o.type = "string" ->
            LET r == String_clone(m, into_string_unchecked(o))
            IN  [m |-> r.m, o |-> [type |-> o.type, w |-> <<r.s.data, r.s.size, Uninit>>]]
      [] o.type = "array" ->
            LET r == Collection_clone(m, into_array_unchecked(o), "objs")
            IN  [m |-> r.m, o |-> [type |-> o.type,
                                   w |-> <<r.c.items, r.c.size, r.c.capacity>>]]
      [] o.type = "dictionary" ->
            LET r == Collection_clone(m, into_dict_unchecked(o), "kvs")
            IN  [m |-> r.m, o |-> [type |-> o.type,
                                   w |-> <<r.c.items, r.c.size, r.c.capacity>>]]
      [] o.type = "luaref" ->
            [m |-> m, o |-> [type |-> o.type, w |-> <<data_luaref(o), Uninit, Uninit>>]]

\* The allocations a clone of o makes.
RECURSIVE CloneNeed(_, _), CloneNeedItems(_, _, _)
CloneNeed(h, o) ==
    CASE o.type = "string" -> 1
      [] o.type \in {"array", "dictionary"} ->
            IF o.w[2] = 0 THEN 0
            ELSE 1 + CloneNeedItems(h, h[o.w[1]].data, ItemKind(o.type))
      [] OTHER -> 0
CloneNeedItems(h, items, kind) ==
    IF items = <<>> THEN 0
    ELSE (IF kind = "kvs" THEN 1 + CloneNeed(h, Head(items).value)
          ELSE CloneNeed(h, Head(items)))
         + CloneNeedItems(h, Tail(items), kind)

\* ------------------------------------------------- values and inputs
\* What a value is, read through the arm its tag names: a tag with a
\* boolean, an integer, a float pattern, the bytes of a buffer, the values
\* of the elements, or the (key bytes, value) pairs.
RECURSIVE Abs(_, _), AbsItems(_, _, _)
Abs(h, o) ==
    CASE o.type = "nil" -> [t |-> "nil"]
      [] o.type = "boolean" -> [t |-> o.type, b |-> data_boolean(o)]
      [] o.type = "integer" -> [t |-> o.type, i |-> data_integer(o)]
      [] o.type = "float" -> [t |-> o.type, f |-> data_float(o)]
      [] o.type = "string" ->
            [t |-> o.type, bytes |-> as_bytes(h, into_string_unchecked(o))]
      [] o.type = "array" ->
            [t |-> o.type,
             elems |-> IF o.w[2] = 0 THEN <<>> ELSE AbsItems(h, h[o.w[1]].data, "objs")]
      [] o.type = "dictionary" ->
            [t |-> o.type,
             pairs |-> IF o.w[2] = 0 THEN <<>> ELSE AbsItems(h, h[o.w[1]].data, "kvs")]
      [] o.type = "luaref" -> [t |-> o.type, r |-> data_luaref(o)]
      [] OTHER -> [t |-> "none"]

AbsItems(h, items, kind) ==
    IF items = <<>> THEN <<>>
    ELSE LET e == Head(items)
         IN  <<IF kind = "kvs"
               THEN [key |-> as_bytes(h, e.key), value |-> Abs(h, e.value)]
               ELSE Abs(h, e)>> \o AbsItems(h, Tail(items), kind)

\* The blocks a value owns: its buffer, and those of its elements.
RECURSIVE Owned(_, _), OwnedItems(_, _, _)
Owned(h, o) ==
    CASE o.type = "string" -> IF o.w[1] = Null THEN {} ELSE {o.w[1]}
      [] o.type \in {"array", "dictionary"} ->
            IF o.w[3] = 0 THEN {}
            ELSE {o.w[1]} \cup OwnedItems(h, h[o.w[1]].data, ItemKind(o.type))
      [] OTHER -> {}

OwnedItems(h, items, kind) ==
    IF items = <<>> THEN {}
    ELSE LET e == Head(items)
         IN  (IF kind = "kvs"
              THEN Owned(h, from_String(e.key)) \cup Owned(h, e.value)
              ELSE Owned(h, e)) \cup OwnedItems(h, Tail(items), kind)

\* The inputs of the constructors.  A string input is the byte vector
\* given to from_bytes (bytes and capacity), or String::default().
Ints == {0, 1, 256, 257}
LuaRefs == {1, 2}
Nil_in == [t |-> "nil"]
Bool_in(b) == [t |-> "boolean", b |-> b]
Int_in(i) == [t |-> "integer", i |-> i]
Float_in(f) == [t |-> "float", f |-> f]
Str_in(bytes, spare) ==
    [t |-> "string", s |-> [bytes |-> bytes, cap |-> Len(bytes) + spare, null |-> FALSE]]
Str_default_in == [t |-> "string", s |-> [bytes |-> <<>>, cap |-> 0, null |-> TRUE]]
Arr_in(elems) == [t |-> "array", elems |-> elems]
Dict_in(pairs) == [t |-> "dictionary", pairs |-> pairs]
Ref_in(r) == [t |-> "luaref", r |-> r]

SeqsUpTo(S, n) == UNION {[1..k -> S] : k \in 0..n}

ElemInputs == {Nil_in, Str_in(<<97>>, 0)}
NestedInputs == {<<Arr_in(<<Str_in(<<97>>, 0)>>)>>,
                 <<Arr_in(<<Str_in(<<97>>, 0)>>), Str_in(<<98>>, 1)>>}
PairInputs == {[key |-> <<107>>, value |-> e] : e \in {Nil_in, Str_in(<<97>>, 0)}}
Inputs ==
    {Nil_in}
    \cup {Bool_in(b) : b \in BOOLEAN}
    \cup {Int_in(i) : i \in Ints}
    \cup {Float_in(f) : f \in Floats}
    \cup {Str_in(b, k) : b \in {<<>>, <<0, 97>>}, k \in {0, 1}}
    \cup {Str_default_in}
    \cup {Arr_in(e) : e \in SeqsUpTo(ElemInputs, MaxArr) \cup NestedInputs}
    \cup {Dict_in(e) : e \in SeqsUpTo(PairInputs, MaxArr - 1)}
    \cup {Ref_in(r) : r \in LuaRefs}

\* The value an input denotes, and the allocations building it makes.
RECURSIVE ValueOf(_), Need(_)
ValueOf(in) ==
    CASE in.t = "boolean" -> [t |-> in.t, b |-> IF in.b THEN 1 ELSE 0]
      [] in.t = "string" -> [t |-> in.t, bytes |-> in.s.bytes]
      [] in.t = "array" ->
            [t |-> in.t, elems |-> [i \in 1..Len(in.elems) |-> ValueOf(in.elems[i])]]
      [] in.t = "dictionary" ->
            [t |-> in.t, pairs |-> [i \in 1..Len(in.pairs) |->
                [key |-> in.pairs[i].key, value |-> ValueOf(in.pairs[i].value)]]]
      [] OTHER -> in

RECURSIVE SumNeed(_, _)
SumNeed(ins, pair) ==
    IF ins = <<>> THEN 0
    ELSE (IF pair THEN 1 + Need(Head(ins).value) ELSE Need(Head(ins)))
         + SumNeed(Tail(ins), pair)
Need(in) ==
    CASE in.t = "string" -> IF in.s.null THEN 0 ELSE 1
      [] in.t = "array" -> (IF in.elems = <<>> THEN 0 ELSE 1) + SumNeed(in.elems, FALSE)
      [] in.t = "dictionary" -> (IF in.pairs = <<>> THEN 0 ELSE 1) + SumNeed(in.pairs, TRUE)
      [] OTHER -> 0

\* Object::from(x) for each kind of input (From<()>, from_copy,
\* from_man_drop, From<LuaFun>), elements first.
RECURSIVE Build(_, _), BuildItems(_, _, _, _)
Build(m, in) ==
    CASE in.t = "nil" -> [m |-> m, o |-> Object_nil]
      [] in.t = "boolean" -> [m |-> m, o |-> from_Boolean(in.b)]
      [] in.t = "integer" -> [m |-> m, o |-> from_Integer(in.i)]
      [] in.t = "float" -> [m |-> m, o |-> from_Float(in.f)]
      [] in.t = "string" ->
            IF in.s.null THEN [m |-> m, o |-> from_String(String_default)]
            ELSE LET r == from_bytes(m, [bytes |-> in.s.bytes, cap |-> in.s.cap])
                 IN  [m |-> r.m, o |-> from_String(r.s)]
      [] in.t = "array" ->
            LET e == BuildItems(m, in.elems, FALSE, <<>>)
                r == Collection_from_vec(e.m, "objs", e.out)
            IN  [m |-> r.m, o |-> from_Array(r.c)]
      [] in.t = "dictionary" ->
            LET e == BuildItems(m, in.pairs, TRUE, <<>>)
                r == Collection_from_vec(e.m, "kvs", e.out)
            IN  [m |-> r.m, o |-> from_Dictionary(r.c)]
      [] in.t = "luaref" -> [m |-> m, o |-> from_LuaFun(in.r)]

BuildItems(m, ins, pair, out) ==
    IF ins = <<>> THEN [m |-> m, out |-> out]
    ELSE IF pair
         THEN LET k == from_bytes(m, to_owned(Head(ins).key))
                  v == Build(k.m, Head(ins).value)
              IN  BuildItems(v.m, Tail(ins), pair,
                             Append(out, [key |-> k.s, value |-> v.o]))
         ELSE LET v == Build(m, Head(ins))
              IN  BuildItems(v.m, Tail(ins), pair, Append(out, v.o))

\* ---------------------------------------------------------- accessors
Accessors == {"nil", "boolean", "integer", "float", "string", "array", "dictionary"}

NoRes == [k |-> "none", val |-> NoObj, expected |-> "none", actual |-> "none"]
Ok(val) == [k |-> "ok", val |-> val, expected |-> "none", actual |-> "none"]
Primitive(expected, actual) ==
    [k |-> "primitive", val |-> NoObj, expected |-> expected, actual |-> actual]
Crash == [k |-> "crash", val |-> NoObj, expected |-> "none", actual |-> "none"]

\* TryFrom<Object> for (): the tag alone is looked at; obj is dropped on
\* return.
try_from_unit(m, obj) ==
    [m |-> Object_drop(m, obj),
     res |-> IF obj.type = "nil" THEN Ok(Object_nil) ELSE Primitive("nil", obj.type),
     reads |-> {},
     held |-> NoObj]

\* try_from_copy!: then_some takes its argument by value, so the arm is
\* read before the tag decides; obj is dropped on return.
try_from_copy(m, obj, variant) ==
    LET val == CASE variant = "boolean" -> data_boolean(obj)
                 [] variant = "integer" -> data_integer(obj)
                 [] variant = "float" -> data_float(obj)
    IN  [m |-> Object_drop(m, obj),
         res |-> IF obj.type = variant
                 THEN Ok([type |-> variant, w |-> <<val, Uninit, Uninit>>])
                 ELSE Primitive(variant, obj.type),
         reads |-> {variant},
         held |-> NoObj]

\* try_from_man_drop!: into_*_unchecked wraps obj in ManuallyDrop (obj is
\* never dropped) and builds the inner value from the arm's words before
\* the tag decides; on a mismatch then_some drops that inner value.
try_from_man_drop(m, obj, variant) ==
    LET inner == [type |-> variant, w |-> obj.w]
    IN  IF obj.type = variant
        THEN [m |-> m, res |-> Ok(inner), reads |-> {variant}, held |-> inner]
        ELSE [m |-> CASE variant = "string" ->
                            String_drop(m, into_string_unchecked(obj))
                      [] variant = "array" ->
                            Collection_drop(m, into_array_unchecked(obj), "objs")
                      [] variant = "dictionary" ->
                            Collection_drop(m, into_dict_unchecked(obj), "kvs"),
              res |-> Primitive(variant, obj.type),
              reads |-> {variant},
              held |-> NoObj]

try_from(m, obj, acc) ==
    CASE acc = "nil" -> try_from_unit(m, obj)
      [] acc \in {"boolean", "integer", "float"} -> try_from_copy(m, obj, acc)
      [] OTHER -> try_from_man_drop(m, obj, acc)

\* ----------------------------------------------------------- equality
\* PartialEq for Object, as the set of answers it can give: the integer
\* arm is compared through the boolean field, a one-byte read that is a
\* valid bool only for 0 and 1 (anything else is undefined behaviour, and
\* may answer either way).
RECURSIVE Object_eq(_, _, _), items_eq(_, _, _, _)
bool_eq(x, y) ==
    IF x \in {0, 1} /\ y \in {0, 1} THEN {x = y} ELSE BOOLEAN

String_eq(h, s, t) == as_bytes(h, s) = as_bytes(h, t)

Collection_eq(h, c, d, kind) ==
    IF c.size # d.size THEN {FALSE}
    ELSE IF c.size = 0 THEN {TRUE}
    ELSE items_eq(h, h[c.items].data, h[d.items].data, kind)

items_eq(h, xs, ys, kind) ==
    IF xs = <<>> THEN {TRUE}
    ELSE LET here == IF kind = "kvs"
                     THEN IF String_eq(h, Head(xs).key, Head(ys).key)
                          THEN Object_eq(h, Head(xs).value, Head(ys).value)
                          ELSE {FALSE}
                     ELSE Object_eq(h, Head(xs), Head(ys))
             rest == items_eq(h, Tail(xs), Tail(ys), kind)
         IN  {a /\ b : a \in here, b \in rest}

Object_eq(h, lhs, rhs) ==
    IF lhs.type # rhs.type THEN {FALSE}
    ELSE CASE lhs.type = "nil" -> {TRUE}
           [] lhs.type = "boolean" -> bool_eq(data_boolean(lhs), data_boolean(rhs))
           [] lhs.type = "integer" -> bool_eq(data_boolean(lhs), data_boolean(rhs))
           [] lhs.type = "float" -> {f64_eq(data_float(lhs), data_float(rhs))}
           [] lhs.type = "string" ->
                {String_eq(h, into_string_unchecked(lhs), into_string_unchecked(rhs))}
           [] lhs.type = "array" ->
                Collection_eq(h, into_array_unchecked(lhs), into_array_unchecked(rhs), "objs")
           [] lhs.type = "dictionary" ->
                Collection_eq(h, into_dict_unchecked(lhs), into_dict_unchecked(rhs), "kvs")
           [] lhs.type = "luaref" -> {data_luaref(lhs) = data_luaref(rhs)}

\* ------------------------------------------------------------- views
\* Object::non_owning and String::non_owning: a bitwise copy of the value
\* (ptr::read, Self { ..*self }) wrapped in NonOwning.
non_owning(o) == [inner |-> o]

\* A plausible slip: the wrapper drops the copy it holds.
View_drop_releases(m, v) == Object_drop(m, v.inner)

\* Dropping a view: NonOwning keeps its inner value in ManuallyDrop, and
\* releases nothing.
View_drop(m, v) == m

\* ------------------------------------------------------ the program
VARIABLES
    heap,       \* the allocator's blocks
    objs,       \* the two owned Objects of the program, or NoObj
    built,      \* the input each was built from
    views,      \* the non-owning views of objs["a"] now alive
    held,       \* the String/Array/Dictionary an accessor handed out
    last,       \* the last operation: what it was given and what it answered
    crashed,    \* the process died of a memory fault
    bound,      \* the variables (slots) already initialised: each is bound once
    strs,       \* the two Strings of the byte-buffer program
    vecs,       \* the Vec<u8> into_bytes handed out, until it is dropped
    sout,       \* the last byte-buffer operation and its answer
    arr,        \* the Array of the iterator program
    iter,       \* its ArrayIterator
    got,        \* the elements the iterator yielded, now the caller's
    iout,       \* the last iterator operation and its answer
    conv,       \* the last conversion: its input, the Object, the answer
    reg,        \* the Lua registry: the state of each slot
    hands,      \* how many LuaFun handles the program holds, by index
    stack,      \* the invocations of closures now executing, innermost first
    fout        \* the last closure operation and its answer

objVars == <<objs, built, views, held, last, bound>>
strVars == <<strs, vecs, sout>>
iterVars == <<arr, iter, got, iout>>
convVars == <<conv>>
funVars == <<reg, hands, stack, fout>>
extVars == <<iterVars, convVars, funVars>>
vars == <<heap, crashed, objVars, strVars, extVars>>

StrSlots == {"s", "t"}
NoStr == [s |-> String_default, in |-> <<>>, how |-> "none"]
NoVec == [ptr |-> Null, len |-> 0, cap |-> 0]
NoOut == [op |-> "none", slot |-> "none", k |-> "none", bytes |-> <<>>, in |-> <<>>,
          eq |-> FALSE]

Slots == {"a", "b"}
NoInput == [t |-> "none"]

\* The iterator program: the Array (with the elements it was built of and
\* the blocks each owns), the two pointers of ArrayIterator, the last answer.
NoArr == [c |-> [items |-> Null, size |-> 0, capacity |-> 0], src |-> <<>>,
          elems |-> <<>>, st |-> "none"]
Ptr(base, off) == [base |-> base, off |-> off]
NoIter == [start |-> Ptr(Null, 0), end |-> Ptr(Null, 0), st |-> "none"]
NoIOut == [op |-> "none", some |-> FALSE, item |-> NoObj, n |-> 0, pre |-> EmptyHeap]

\* The conversion program.
NoConv == [op |-> "none"]

\* The closure program: the references luaL_ref hands out, and a slot
\* of the registry before any closure is stored in it.
Refs == 1..MaxRefs
NoSlot == [st |-> "unregistered", kind |-> "none", borrowed |-> FALSE,
           taken |-> FALSE, started |-> FALSE, rejected |-> FALSE,
           again |-> FALSE]
NoFOut == [op |-> "none", ref |-> 0, kind |-> "none", k |-> "none", ran |-> FALSE,
           reached |-> FALSE, active |-> FALSE, first |-> TRUE, was |-> "none",
           rejected |-> FALSE, err |-> "none", boundary |-> "none", msg |-> "none",
           returned |-> FALSE, top |-> 0]

Step(op, slot, acc, res, reads, obj) ==
    [op |-> op, slot |-> slot, acc |-> acc, res |-> res, reads |-> reads,
     obj |-> obj, own |-> Owned(heap, obj), pre |-> heap]

Mem == [heap |-> heap, ub |-> FALSE]

\* Undefined behaviour either kills the process or lets it run on.
Fates(m) == IF m.ub THEN {TRUE, FALSE} ELSE {FALSE}

Init ==
    /\ heap = EmptyHeap
    /\ objs = [s \in Slots |-> NoObj]
    /\ built = [s \in Slots |-> NoInput]
    /\ views = <<>>
    /\ held = NoObj
    /\ last = [op |-> "init", slot |-> "none", acc |-> "none", res |-> NoRes,
               reads |-> {}, obj |-> NoObj, own |-> {}, pre |-> EmptyHeap]
    /\ crashed = FALSE
    /\ bound = {}
    /\ strs = [x \in StrSlots |-> NoStr]
    /\ vecs = NoVec
    /\ sout = NoOut
    /\ arr = NoArr
    /\ iter = NoIter
    /\ got = <<>>
    /\ iout = NoIOut
    /\ conv = NoConv
    /\ reg = [r \in Refs |-> NoSlot]
    /\ hands = [r \in Refs |-> 0]
    /\ stack = <<>>
    /\ fout = NoFOut

\* A second Object is built to be compared with the first: of any scalar
\* kind, or of the first one's kind.
InputsFor(slot) ==
    IF slot = "a" THEN Inputs
    ELSE {in \in Inputs : Need(in) = 0 \/ in.t = built["a"].t}

\* let x = Object::from(input);
Construct(slot, in) ==
    /\ ~crashed
    /\ objs[slot] = NoObj
    /\ slot \notin bound
    /\ bound' = bound \cup {slot}
    /\ Need(in) <= Cardinality(Unalloc(heap))
    /\ LET r == Build(Mem, in)
       IN  /\ heap' = r.m.heap
           /\ objs' = [objs EXCEPT ![slot] = r.o]
           /\ built' = [built EXCEPT ![slot] = in]
           /\ last' = Step("from", slot, "none", NoRes, {}, r.o)
    /\ UNCHANGED <<views, held, crashed, strVars, extVars>>

\* drop(x);  the borrow checker forbids it while a view of x is alive.
DropObj(slot) ==
    /\ ~crashed
    /\ objs[slot] # NoObj
    /\ slot = "a" => views = <<>>
    /\ LET m == Object_drop(Mem, objs[slot])
       IN  \E dies \in Fates(m) :
             /\ heap' = m.heap
             /\ crashed' = dies
             /\ last' = Step("drop", slot, "none", IF dies THEN Crash ELSE NoRes,
                             {}, objs[slot])
    /\ objs' = [objs EXCEPT ![slot] = NoObj]
    /\ built' = [built EXCEPT ![slot] = NoInput]
    /\ UNCHANGED <<views, held, bound, strVars, extVars>>

\* let b = a.clone();
CloneObj ==
    /\ ~crashed
    /\ objs["a"] # NoObj
    /\ objs["b"] = NoObj
    /\ "b" \notin bound
    /\ bound' = bound \cup {"b"}
    /\ CloneNeed(heap, objs["a"]) <= Cardinality(Unalloc(heap))
    /\ LET r == Object_clone(Mem, objs["a"])
       IN  /\ heap' = r.m.heap
           /\ objs' = [objs EXCEPT !["b"] = r.o]
    /\ built' = [built EXCEPT !["b"] = built["a"]]
    /\ last' = Step("clone", "a", "none", NoRes, {}, objs["a"])
    /\ UNCHANGED <<views, held, crashed, strVars, extVars>>

\* a == b
Compare ==
    /\ ~crashed
    /\ objs["a"] # NoObj
    /\ objs["b"] # NoObj
    /\ \E answer \in Object_eq(heap, objs["a"], objs["b"]) :
          last' = Step("eq", "a", "none",
                       Ok(from_Boolean(answer)), {}, objs["a"])
    /\ UNCHANGED <<heap, objs, built, views, held, crashed, bound, strVars, extVars>>

\* T::try_from(x): x is consumed, whatever the answer.
TryFrom(slot, acc) ==
    /\ ~crashed
    /\ objs[slot] # NoObj
    /\ held = NoObj
    /\ slot = "a" => views = <<>>
    /\ LET r == try_from(Mem, objs[slot], acc)
       IN  \E dies \in Fates(r.m) :
             /\ heap' = r.m.heap
             /\ crashed' = dies
             /\ held' = IF dies THEN NoObj ELSE r.held
             /\ last' = Step("try_from", slot, acc, IF dies THEN Crash ELSE r.res,
                             r.reads, objs[slot])
    /\ objs' = [objs EXCEPT ![slot] = NoObj]
    /\ built' = [built EXCEPT ![slot] = NoInput]
    /\ UNCHANGED <<views, bound, strVars, extVars>>

\* The value an accessor handed out goes out of scope.
DropHeld ==
    /\ ~crashed
    /\ held # NoObj
    /\ LET m == Object_drop(Mem, held)
       IN  \E dies \in Fates(m) :
             /\ heap' = m.heap
             /\ crashed' = dies
             /\ last' = Step("drop_held", "none", "none",
                             IF dies THEN Crash ELSE NoRes, {}, held)
    /\ held' = NoObj
    /\ UNCHANGED <<objs, built, views, bound, strVars, extVars>>

\* let v = a.non_owning();
MakeView ==
    /\ ~crashed
    /\ objs["a"] # NoObj
    /\ Len(views) < MaxViews
    /\ views' = Append(views, non_owning(objs["a"]))
    /\ last' = Step("non_owning", "a", "none", NoRes, {}, objs["a"])
    /\ UNCHANGED <<heap, objs, built, held, crashed, bound, strVars, extVars>>

\* A view is passed by value to a foreign function (nvim_set_var and the
\* like), which copies what it keeps and releases nothing of the caller's.
ForeignCall ==
    /\ ~crashed
    /\ views # <<>>
    /\ views' = Tail(views)
    /\ last' = Step("foreign_call", "a", "none", NoRes, {}, Head(views).inner)
    /\ UNCHANGED <<heap, objs, built, held, crashed, bound, strVars, extVars>>

\* A view goes out of scope.
DropView ==
    /\ ~crashed
    /\ views # <<>>
    /\ LET m == View_drop(Mem, Head(views))
       IN  \E dies \in Fates(m) :
             /\ heap' = m.heap
             /\ crashed' = dies
             /\ last' = Step("drop_view", "a", "none",
                             IF dies THEN Crash ELSE NoRes, {}, Head(views).inner)
    /\ views' = Tail(views)
    /\ UNCHANGED <<objs, built, held, bound, strVars, extVars>>

\* set_var(name, value): both are built, lent to nvim_set_var as views,
\* and dropped on return (value first, then name).  It is the whole
\* program of its behaviour.
set_var(name, in) ==
    /\ ~crashed
    /\ bound = {}
    /\ last.op = "init"
    /\ 1 + Need(in) <= Cardinality(Unalloc(heap))
    /\ LET n == from_bytes(Mem, to_owned(name))
           v == Build(n.m, in)
           lent == <<non_owning(from_String(n.s)), non_owning(v.o)>>
           m1 == View_drop(View_drop(v.m, lent[1]), lent[2])
           m2 == String_drop(Object_drop(m1, v.o), n.s)
       IN  \E dies \in Fates(m2) :
             /\ heap' = m2.heap
             /\ crashed' = dies
             /\ last' = [Step("set_var", "none", "none",
                              IF dies THEN Crash ELSE NoRes, {}, v.o)
                         EXCEPT !.own = Live(v.m.heap)]
    /\ bound' = Slots
    /\ UNCHANGED <<objs, built, views, held, strVars, extVars>>

Next ==
    \/ \E slot \in Slots : \E in \in InputsFor(slot) : Construct(slot, in)
    \/ \E slot \in Slots : DropObj(slot)
    \/ CloneObj
    \/ Compare
    \/ \E acc \in Accessors : TryFrom("a", acc)
    \/ DropHeld
    \/ MakeView
    \/ ForeignCall
    \/ DropView
    \/ \E name \in {<<>>, <<120>>}, in \in Inputs : set_var(name, in)

Spec == Init /\ [][Next]_vars

\* ------------------------------------------- the byte-buffer program
Bytes == {0, 97, 169, 195}
ByteVecs == SeqsUpTo(Bytes, MaxLen)
Texts == {b \in ByteVecs : utf8_valid(b)}
Chars == {b \in Texts : b # <<>> /\ Utf8Len(b) = Len(b)}

SOut(slot, text) ==
    [op |-> text.op, slot |-> slot, k |-> text.k, bytes |-> text.bytes,
     in |-> strs[slot].in, eq |-> FALSE]

\* The constructors over from_bytes.  From<Vec<u8>> and From<StdString>
\* pass the caller's vector on, with whatever capacity it has; From<&str>
\* copies the text with to_owned; From<char> goes through ch.to_string(),
\* whose capacity the standard library does not promise.
Made(how, bytes, spare) ==
    /\ ~crashed
    /\ strs["s"].how = "none"
    /\ sout.op = "none"
    /\ LET vec == IF how = "from_str" THEN to_owned(bytes)
                  ELSE [bytes |-> bytes, cap |-> Len(bytes) + spare]
           r == from_bytes(Mem, vec)
       IN  /\ heap' = r.m.heap
           /\ strs' = [strs EXCEPT !["s"] = [s |-> r.s, in |-> bytes, how |-> how]]
    /\ sout' = [NoOut EXCEPT !.op = how, !.slot = "s", !.in = bytes]
    /\ UNCHANGED <<vecs, crashed, objVars, extVars>>

FromBytes(bytes, spare) == Made("from_bytes", bytes, spare)
FromStdString(text, spare) == Made("from_std_string", text, spare)
FromStr(text) == Made("from_str", text, 0)
FromChar(ch, spare) == Made("from_char", ch, spare)

\* let s = String::default();
DefaultStr ==
    /\ ~crashed
    /\ strs["s"].how = "none"
    /\ sout.op = "none"
    /\ strs' = [strs EXCEPT !["s"] = [s |-> String_default, in |-> <<>>,
                                      how |-> "default"]]
    /\ sout' = [NoOut EXCEPT !.op = "default", !.slot = "s"]
    /\ UNCHANGED <<heap, vecs, crashed, objVars, extVars>>

\* let t = s.clone();
CloneStr ==
    /\ ~crashed
    /\ strs["s"].how # "none"
    /\ strs["t"].how = "none"
    /\ Unalloc(heap) # {}
    /\ LET r == String_clone(Mem, strs["s"].s)
       IN  /\ heap' = r.m.heap
           /\ strs' = [strs EXCEPT !["t"] = [s |-> r.s, in |-> strs["s"].in,
                                             how |-> "clone"]]
    /\ sout' = [NoOut EXCEPT !.op = "clone", !.slot = "t", !.in = strs["s"].in]
    /\ UNCHANGED <<vecs, crashed, objVars, extVars>>

\* s.as_str() and s.to_string_lossy() borrow s.
AsStr(slot) ==
    /\ ~crashed
    /\ strs[slot].how # "none"
    /\ sout' = SOut(slot, as_str(heap, strs[slot].s))
    /\ UNCHANGED <<heap, strs, vecs, crashed, objVars, extVars>>

ToStringLossy(slot) ==
    /\ ~crashed
    /\ strs[slot].how # "none"
    /\ sout' = SOut(slot, to_string_lossy(heap, strs[slot].s))
    /\ UNCHANGED <<heap, strs, vecs, crashed, objVars, extVars>>

\* s.into_bytes(), s.into_string() and StdString::try_from(s) consume s;
\* the vector lives on in the answer.
IntoBytes(slot) ==
    /\ ~crashed
    /\ strs[slot].how # "none"
    /\ vecs = NoVec
    /\ vecs' = into_bytes(strs[slot].s)
    /\ sout' = SOut(slot, TextOk("into_bytes", Vec_bytes(heap, into_bytes(strs[slot].s))))
    /\ strs' = [strs EXCEPT ![slot] = NoStr]
    /\ LET m == into_bytes_self(Mem, strs[slot].s)
       IN  \E dies \in Fates(m) :
             /\ heap' = m.heap
             /\ crashed' = dies
    /\ UNCHANGED <<objVars, extVars>>

IntoString(slot) ==
    /\ ~crashed
    /\ strs[slot].how # "none"
    /\ vecs = NoVec
    /\ vecs' = into_bytes(strs[slot].s)
    /\ sout' = SOut(slot, into_string(heap, strs[slot].s))
    /\ strs' = [strs EXCEPT ![slot] = NoStr]
    /\ LET m == into_bytes_self(Mem, strs[slot].s)
       IN  \E dies \in Fates(m) :
             /\ heap' = m.heap
             /\ crashed' = dies
    /\ UNCHANGED <<objVars, extVars>>

TryFromString(slot) ==
    /\ ~crashed
    /\ strs[slot].how # "none"
    /\ vecs = NoVec
    /\ vecs' = into_bytes(strs[slot].s)
    /\ sout' = SOut(slot, StdString_try_from(heap, strs[slot].s))
    /\ strs' = [strs EXCEPT ![slot] = NoStr]
    /\ LET m == into_bytes_self(Mem, strs[slot].s)
       IN  \E dies \in Fates(m) :
             /\ heap' = m.heap
             /\ crashed' = dies
    /\ UNCHANGED <<objVars, extVars>>

\* s == t and s.cmp(&t)
CmpStr ==
    /\ ~crashed
    /\ strs["s"].how # "none"
    /\ strs["t"].how # "none"
    /\ sout' = [NoOut EXCEPT !.op = "cmp", !.slot = "s",
                             !.k = String_cmp(strs["s"].s, strs["t"].s),
                             !.eq = String_eq(heap, strs["s"].s, strs["t"].s),
                             !.bytes = as_bytes(heap, strs["t"].s),
                             !.in = as_bytes(heap, strs["s"].s)]
    /\ UNCHANGED <<heap, strs, vecs, crashed, objVars, extVars>>

\* drop(s);
DropStr(slot) ==
    /\ ~crashed
    /\ strs[slot].how # "none"
    /\ LET m == String_drop(Mem, strs[slot].s)
       IN  \E dies \in Fates(m) :
             /\ heap' = m.heap
             /\ crashed' = dies
    /\ sout' = SOut(slot, [op |-> "drop", k |-> "none", bytes |-> <<>>])
    /\ strs' = [strs EXCEPT ![slot] = NoStr]
    /\ UNCHANGED <<vecs, objVars, extVars>>

\* The vector (or the text, or the error that holds it) is dropped.
DropVec ==
    /\ ~crashed
    /\ vecs # NoVec
    /\ LET m == Vec_drop(Mem, vecs)
       IN  \E dies \in Fates(m) :
             /\ heap' = m.heap
             /\ crashed' = dies
    /\ sout' = [NoOut EXCEPT !.op = "drop_vec"]
    /\ vecs' = NoVec
    /\ UNCHANGED <<strs, objVars, extVars>>

StrNext ==
    \/ \E bytes \in ByteVecs, spare \in 0..MaxSpare : FromBytes(bytes, spare)
    \/ \E text \in Texts, spare \in 0..MaxSpare : FromStdString(text, spare)
    \/ \E text \in Texts : FromStr(text)
    \/ \E ch \in Chars, spare \in 0..MaxSpare : FromChar(ch, spare)
    \/ DefaultStr
    \/ CloneStr
    \/ CmpStr
    \/ AsStr("s")
    \/ ToStringLossy("s")
    \/ IntoBytes("s")
    \/ IntoString("s")
    \/ TryFromString("s")
    \/ \E slot \in StrSlots : DropStr(slot)
    \/ DropVec

StrSpec == Init /\ [][StrNext]_vars

\* ------------------------------------------------ the iterator program
\* Optional values: Some(x) and None.
Some(x) == [t |-> "some", v |-> x]
None == [t |-> "absent"]

\* Two's complement integers wider than the checker's own are sequences of
\* 16-bit limbs, the most significant first: an i64 has four, a host
\* integer of 32 bits two, of 16 or 8 bits one.
F == 65535
Bits(ty) ==
    CASE ty \in {"i8", "u8"} -> 8
      [] ty \in {"i16", "u16"} -> 16
      [] ty \in {"i32", "u32"} -> 32
      [] OTHER -> 64
Signed(ty) == ty \in {"i8", "i16", "i32", "i64", "isize"}
IntH(ty, l) == [t |-> "int", ty |-> ty, l |-> l]
TextH(bytes) == [t |-> "text", bytes |-> bytes]
VecH(xs) == [t |-> "vec", xs |-> xs]

\* A plausible slip: every type is widened as if it were unsigned.
Integer_from_zero_extended(ty, l) ==
    [i \in 1..(4 - Len(l)) |-> 0] \o l

\* Integer::from(i) for the types of from_int! (and i64 itself): sign
\* extension of a signed type, zero extension of an unsigned one.
Integer_from(ty, l) ==
    LET neg == Signed(ty) /\ l[1] >= (IF Bits(ty) = 8 THEN 128 ELSE 32768)
        low == IF Bits(ty) = 8 /\ neg THEN <<65280 + l[1]>> ELSE l
    IN  [i \in 1..(4 - Len(l)) |-> IF neg THEN F ELSE 0] \o low

\* Object::from(x) for the host values: From<Option<T>> is
\* maybe.map(Into::into).unwrap_or_default() and the default Object is nil;
\* from_int! widens to Integer; From<StdString> goes through NvimString;
\* a sequence goes through Array::from_iter.
RECURSIVE Object_from(_, _), map_into(_, _, _), Array_from_iter(_, _)
Object_from(m, x) ==
    CASE x.t = "some" -> Object_from(m, x.v)
      [] x.t = "absent" -> [m |-> m, o |-> Object_nil]
      [] x.t = "int" -> [m |-> m, o |-> from_Integer(Integer_from(x.ty, x.l))]
      [] x.t = "text" ->
            LET r == from_bytes(m, to_owned(x.bytes))
            IN  [m |-> r.m, o |-> from_String(r.s)]
      [] x.t = "vec" ->
            LET r == Array_from_iter(m, x.xs)
            IN  [m |-> r.m, o |-> from_Array(r.c)]
      [] OTHER -> Build(m, x)

is_some(o) == o.type # "nil"

\* iter.map(Into::into): every item becomes an Object, in order.
map_into(m, xs, out) ==
    IF xs = <<>> THEN [m |-> m, out |-> out]
    ELSE LET r == Object_from(m, Head(xs))
         IN  map_into(r.m, Tail(xs), Append(out, r.o))

\* A plausible slip: the filter is left out.
filter_keeps_all(os) == os

\* .filter(Object::is_some): the nil Objects are dropped (they own nothing).
filter_is_some(os) == SelectSeq(os, is_some)

\* Array::from_iter: map, filter, collect into a Vec, into the Array.
Array_from_iter(m, xs) ==
    LET r == map_into(m, xs, <<>>)
    IN  Collection_from_vec(r.m, "objs", filter_is_some(r.out))

\* The items given to from_iter: plain values and optional ones.
IterItems == {None, Some(Int_in(1)), Some(Int_in(257)), Str_in(<<97>>, 0),
              Some(Str_in(<<98>>, 0)), Some(Some(Str_in(<<97>>, 0))), Some(None)}
IterSrcs == SeqsUpTo(IterItems, MaxIter)

\* The element at a pointer into a buffer of Objects.
PtrRead(h, p) == h[p.base].data[p.off + 1]

\* A plausible slip: the length of the whole array.
ArrayIterator_len_total(it) == it.end.off

\* ExactSizeIterator::len: end.offset_from(start).
ArrayIterator_len(it) == it.end.off - it.start.off

\* let array = Array::from_iter(src);
Collected(r, src, op) ==
    LET os == IF r.c.size = 0 THEN <<>> ELSE r.m.heap[r.c.items].data
    IN  /\ heap' = r.m.heap
        /\ arr' = [c |-> r.c, src |-> src, st |-> "built",
                   elems |-> [i \in 1..Len(os) |->
                                 [o |-> os[i], own |-> Owned(r.m.heap, os[i])]]]
        /\ iout' = [NoIOut EXCEPT !.op = op, !.pre = heap]
        /\ UNCHANGED <<crashed, iter, got, objVars, strVars, convVars, funVars>>

FromIter(src) ==
    /\ ~crashed
    /\ arr.st = "none" /\ iter.st = "none" /\ iout.op = "none"
    /\ Collected(Array_from_iter(Mem, src), src, "from_iter")

\* Array::from((a, b, ..)): Self::from_iter([a.into(), b.into(), ..]), the
\* fields converted in order and given to from_iter.
Array_from_tuple(m, fields) == Array_from_iter(m, fields)

FromTuple(src) ==
    /\ ~crashed
    /\ src # <<>>
    /\ arr.st = "none" /\ iter.st = "none" /\ iout.op = "none"
    /\ Collected(Array_from_tuple(Mem, src), src, "from_tuple")

\* let mut iter = array.into_iter(): the Array is wrapped in ManuallyDrop,
\* the iterator keeps the first and the past-the-end pointer.
IntoIter ==
    /\ ~crashed
    /\ arr.st = "built"
    /\ iter' = [start |-> Ptr(arr.c.items, 0),
                end |-> Ptr(arr.c.items, arr.c.size),
                st |-> "live"]
    /\ arr' = [arr EXCEPT !.st = "iterated"]
    /\ iout' = [NoIOut EXCEPT !.op = "into_iter", !.pre = heap]
    /\ UNCHANGED <<heap, crashed, got, objVars, strVars, convVars, funVars>>

\* iter.next(): the element at start is read out (ptr::read) and start
\* moves on; None when start has reached end.
IterNext ==
    /\ ~crashed
    /\ iter.st = "live"
    /\ IF iter.start # iter.end
       THEN /\ iter' = [iter EXCEPT !.start.off = @ + 1]
            /\ got' = Append(got, PtrRead(heap, iter.start))
            /\ iout' = [NoIOut EXCEPT !.op = "next", !.some = TRUE,
                                      !.item = PtrRead(heap, iter.start),
                                      !.n = Len(got) + 1, !.pre = heap]
       ELSE /\ iout' = [NoIOut EXCEPT !.op = "next", !.n = Len(got), !.pre = heap]
            /\ UNCHANGED <<iter, got>>
    /\ UNCHANGED <<heap, crashed, arr, objVars, strVars, convVars, funVars>>

\* iter.len() and iter.size_hint(), which answers (len, Some(len)).
IterLen ==
    /\ ~crashed
    /\ iter.st = "live"
    /\ iout.op # "len"
    /\ iout' = [NoIOut EXCEPT !.op = "len", !.n = ArrayIterator_len(iter), !.pre = heap]
    /\ UNCHANGED <<heap, crashed, arr, iter, got, objVars, strVars, convVars, funVars>>

\* A plausible slip: the drop starts over from the first element.
ArrayIterator_drop_from_first(m, it) ==
    IF it.end.off = 0 THEN m
    ELSE drop_items(m, m.heap[it.end.base].data, "objs")

\* Drop for ArrayIterator: drop_in_place of every element from start to
\* end.  The buffer itself is not released here.
ArrayIterator_drop(m, it) ==
    IF it.start = it.end THEN m
    ELSE drop_items(m, SubSeq(m.heap[it.start.base].data, it.start.off + 1, it.end.off),
                    "objs")

\* drop(iter);
DropIter ==
    /\ ~crashed
    /\ iter.st = "live"
    /\ LET m == ArrayIterator_drop(Mem, iter)
       IN  \E dies \in Fates(m) :
             /\ heap' = m.heap
             /\ crashed' = dies
    /\ iter' = [iter EXCEPT !.st = "dropped"]
    /\ iout' = [NoIOut EXCEPT !.op = "drop_iter", !.pre = heap]
    /\ UNCHANGED <<arr, got, objVars, strVars, convVars, funVars>>

\* iter.count(): len(), and the iterator, taken by value, is dropped.
IterCount ==
    /\ ~crashed
    /\ iter.st = "live"
    /\ LET m == ArrayIterator_drop(Mem, iter)
       IN  \E dies \in Fates(m) :
             /\ heap' = m.heap
             /\ crashed' = dies
    /\ iter' = [iter EXCEPT !.st = "dropped"]
    /\ iout' = [NoIOut EXCEPT !.op = "count", !.n = ArrayIterator_len(iter), !.pre = heap]
    /\ UNCHANGED <<arr, got, objVars, strVars, convVars, funVars>>

\* The caller drops the elements it was given, the first one first.
DropGot ==
    /\ ~crashed
    /\ iter.st = "dropped"
    /\ \E i \in 1..Len(got) :
         /\ got[i] # NoObj
         /\ \A j \in 1..(i - 1) : got[j] = NoObj
         /\ LET m == Object_drop(Mem, got[i])
            IN  \E dies \in Fates(m) :
                  /\ heap' = m.heap
                  /\ crashed' = dies
         /\ got' = [got EXCEPT ![i] = NoObj]
         /\ iout' = [NoIOut EXCEPT !.op = "drop_got", !.item = got[i], !.pre = heap]
    /\ UNCHANGED <<arr, iter, objVars, strVars, convVars, funVars>>

\* drop(array), never iterated.
DropArr ==
    /\ ~crashed
    /\ arr.st = "built"
    /\ LET m == Collection_drop(Mem, arr.c, "objs")
       IN  \E dies \in Fates(m) :
             /\ heap' = m.heap
             /\ crashed' = dies
    /\ arr' = [arr EXCEPT !.st = "dropped"]
    /\ iout' = [NoIOut EXCEPT !.op = "drop_array", !.pre = heap]
    /\ UNCHANGED <<iter, got, objVars, strVars, convVars, funVars>>

IterStep ==
    \/ \E src \in IterSrcs : FromIter(src)
    \/ \E src \in IterSrcs : FromTuple(src)
    \/ IntoIter
    \/ IterNext
    \/ IterLen
    \/ DropIter
    \/ IterCount
    \/ DropGot
    \/ DropArr

IterSpec == Init /\ [][IterStep]_vars

\* ---------------------------------------------- the conversion program
\* Signed comparison of two i64: the sign bit flipped, then limb by limb.
Lt64(a, b) ==
    LET ka == <<(a[1] + 32768) % 65536, a[2], a[3], a[4]>>
        kb == <<(b[1] + 32768) % 65536, b[2], b[3], b[4]>>
    IN  \E i \in 1..4 : ka[i] < kb[i] /\ \A j \in 1..(i - 1) : ka[j] = kb[j]

\* T::MIN and T::MAX as i64.
MinOf(ty) ==
    CASE ty = "i8" -> <<F, F, F, 65408>>
      [] ty = "i16" -> <<F, F, F, 32768>>
      [] ty = "i32" -> <<F, F, 32768, 0>>
      [] ty \in {"i64", "isize"} -> <<32768, 0, 0, 0>>
      [] OTHER -> <<0, 0, 0, 0>>
MaxOf(ty) ==
    CASE ty = "i8" -> <<0, 0, 0, 127>>
      [] ty = "u8" -> <<0, 0, 0, 255>>
      [] ty = "i16" -> <<0, 0, 0, 32767>>
      [] ty = "u16" -> <<0, 0, 0, F>>
      [] ty = "i32" -> <<0, 0, 32767, F>>
      [] ty = "u32" -> <<0, 0, F, F>>
      [] OTHER -> <<32767, F, F, F>>

\* `v as T`: the low bits of v.
Truncate(ty, v) ==
    CASE Bits(ty) = 8 -> <<v[4] % 256>>
      [] Bits(ty) = 16 -> <<v[4]>>
      [] Bits(ty) = 32 -> <<v[3], v[4]>>
      [] OTHER -> v

OkH(x) == [k |-> "ok", x |-> x]
PrimitiveH(expected, actual) ==
    [k |-> "primitive", expected |-> expected, actual |-> actual]
\* FromObjectError::secondary::<_, T>(primitive, err).
secondary(primitive, into) ==
    [k |-> "secondary", primitive |-> primitive, into |-> into]

\* A plausible slip: the integer is cast, not checked.
try_into_wrapping(ty, v) == OkH(IntH(ty, Truncate(ty, v)))

\* TryFrom<i64> for T: an error outside T::MIN..=T::MAX, else the cast.
try_into(ty, v) ==
    IF Lt64(v, MinOf(ty)) \/ Lt64(MaxOf(ty), v)
    THEN [k |-> "out_of_range"]
    ELSE OkH(IntH(ty, Truncate(ty, v)))

\* try_from_prim!(Integer, T, kObjectTypeInteger): the Integer accessor,
\* its error passed on by `?`, then try_into with its error wrapped.
try_from_prim(m, obj, ty) ==
    LET r == try_from(m, obj, "integer")
    IN  IF r.res.k # "ok"
        THEN [m |-> r.m, res |-> PrimitiveH(r.res.expected, r.res.actual)]
        ELSE LET n == try_into(ty, data_integer(r.res.val))
             IN  [m |-> r.m,
                  res |-> IF n.k = "ok" THEN n ELSE secondary("integer", ty)]

\* try_from_prim!(NvimString, StdString, kObjectTypeString).
try_from_prim_text(m, obj) ==
    LET r == try_from(m, obj, "string")
    IN  IF r.res.k # "ok"
        THEN [m |-> r.m, res |-> PrimitiveH(r.res.expected, r.res.actual)]
        ELSE LET t == StdString_try_from(r.m.heap, into_string_unchecked(r.held))
             IN  [m |-> into_bytes_self(r.m, into_string_unchecked(r.held)),
                  res |-> IF t.k = "ok" THEN OkH(TextH(t.bytes))
                          ELSE secondary("string", "StdString")]

\* The types of the host values.
Ty(k) == [k |-> k]
IntTy(ty) == [k |-> "int", ty |-> ty]
OptTy(of) == [k |-> "opt", of |-> of]
VecTy(of) == [k |-> "vec", of |-> of]

\* T::try_from(obj) for a host type T: the accessors of object.rs for
\* the scalar types and the texts, the two rules below for the optional
\* values and the sequences.
RECURSIVE Decode(_, _, _), DecodeItems(_, _, _, _), Option_try_from(_, _, _),
          Vec_try_from(_, _, _)
Decode(m, obj, ty) ==
    CASE ty.k = "bool" ->
            LET r == try_from(m, obj, "boolean")
            IN  [m |-> r.m,
                 res |-> IF r.res.k = "ok"
                         THEN OkH(Bool_in(data_boolean(r.res.val) = 1))
                         ELSE PrimitiveH(r.res.expected, r.res.actual)]
      [] ty.k = "f64" ->
            LET r == try_from(m, obj, "float")
            IN  [m |-> r.m,
                 res |-> IF r.res.k = "ok"
                         THEN OkH(Float_in(data_float(r.res.val)))
                         ELSE PrimitiveH(r.res.expected, r.res.actual)]
      [] ty.k = "int" ->
            IF ty.ty = "i64"
            THEN LET r == try_from(m, obj, "integer")
                 IN  [m |-> r.m,
                      res |-> IF r.res.k = "ok"
                              THEN OkH(IntH("i64", data_integer(r.res.val)))
                              ELSE PrimitiveH(r.res.expected, r.res.actual)]
            ELSE try_from_prim(m, obj, ty.ty)
      [] ty.k = "text" -> try_from_prim_text(m, obj)
      [] ty.k = "opt" -> Option_try_from(m, obj, ty)
      [] ty.k = "vec" -> Vec_try_from(m, obj, ty)

\* An optional value: nil is None, anything else is Some of what it
\* decodes to.
Option_try_from(m, obj, ty) ==
    IF obj.type = "nil" THEN [m |-> m, res |-> OkH(None)]
    ELSE LET r == Decode(m, obj, ty.of)
         IN  [m |-> r.m,
              res |-> IF r.res.k = "ok" THEN OkH(Some(r.res.x)) ELSE r.res]

\* A sequence: the Array accessor, then every element of its consuming
\* iterator decoded in order.
Vec_try_from(m, obj, ty) ==
    LET r == try_from(m, obj, "array")
    IN  IF r.res.k # "ok"
        THEN [m |-> r.m, res |-> PrimitiveH(r.res.expected, r.res.actual)]
        ELSE DecodeItems(r.m,
                         IF r.held.w[2] = 0 THEN <<>>
                         ELSE r.m.heap[r.held.w[1]].data,
                         ty.of, <<>>)

DecodeItems(m, os, ty, out) ==
    IF os = <<>> THEN [m |-> m, res |-> OkH(VecH(out))]
    ELSE LET r == Decode(m, Head(os), ty)
         IN  IF r.res.k = "ok"
             THEN DecodeItems(r.m, Tail(os), ty, Append(out, r.res.x))
             ELSE r

\* The i64 values tried: the ends of every target range and their
\* neighbours.
Pos(n) == <<0, 0, 0, n>>
Neg(n) == <<F, F, F, 65536 - n>>
I64s ==
    {Pos(0), Pos(1), Neg(1), Pos(127), Pos(128), Neg(128), Neg(129), Pos(255),
     Pos(256), Pos(32767), Pos(32768), Neg(32768), Neg(32769), Pos(F),
     <<0, 0, 1, 0>>, <<0, 0, 32767, F>>, <<0, 0, 32768, 0>>, <<F, F, 32768, 0>>,
     <<F, F, 32767, F>>, <<0, 0, F, F>>, <<0, 1, 0, 0>>, <<32767, F, F, F>>,
     <<32768, 0, 0, 0>>}

NarrowTypes == {"i8", "u8", "i16", "u16", "i32", "u32", "u64", "usize", "isize"}

\* The host integers tried, of the types of from_int!.
HostInts ==
    {IntH(ty, <<n>>) : ty \in {"i8", "u8"}, n \in {0, 1, 127, 128, 255}}
    \cup {IntH(ty, <<n>>) : ty \in {"i16", "u16"}, n \in {0, 255, 256, 32767, 32768, F}}
    \cup {IntH(ty, l) : ty \in {"i32", "u32"},
                        l \in {<<0, 0>>, <<0, F>>, <<1, 0>>, <<32767, F>>, <<32768, 0>>, <<F, F>>}}

\* The typed host values given to the round trip.
Typed(ty, x) == [ty |-> ty, x |-> x]
ConvTexts == {<<>>, <<97>>, <<195, 169>>}
ConvInputs ==
    {Typed(Ty("bool"), Bool_in(b)) : b \in BOOLEAN}
    \cup {Typed(IntTy("i64"), IntH("i64", v)) : v \in I64s}
    \cup {Typed(IntTy(x.ty), x) : x \in HostInts}
    \cup {Typed(Ty("f64"), Float_in(f)) : f \in Floats}
    \cup {Typed(Ty("text"), TextH(b)) : b \in ConvTexts}
    \cup {Typed(OptTy(Ty("bool")), x) : x \in {None, Some(Bool_in(TRUE))}}
    \cup {Typed(OptTy(Ty("text")), x) : x \in {None, Some(TextH(<<97>>))}}
    \cup {Typed(OptTy(OptTy(IntTy("i64"))), x) :
            x \in {None, Some(None), Some(Some(IntH("i64", Pos(1))))}}
    \cup {Typed(VecTy(IntTy("u8")), VecH(xs)) :
            xs \in {<<>>, <<IntH("u8", <<1>>), IntH("u8", <<255>>)>>}}
    \cup {Typed(VecTy(Ty("text")), VecH(<<TextH(<<97>>), TextH(<<>>)>>))}
    \cup {Typed(VecTy(OptTy(IntTy("i64"))), VecH(xs)) :
            xs \in {<<Some(IntH("i64", Pos(1))), Some(IntH("i64", Neg(1)))>>,
                    <<Some(IntH("i64", Pos(1))), None, Some(IntH("i64", Pos(256)))>>}}

\* The Objects given to the narrowing accessors that are no integers.
NoIntegers == {Nil_in, Bool_in(TRUE), Float_in(2), Str_in(<<97>>, 0)}

\* let back = T::try_from(Object::from(x));
RoundTrip(in) ==
    /\ ~crashed
    /\ conv.op = "none"
    /\ LET e == Object_from(Mem, in.x)
           r == Decode(e.m, e.o, in.ty)
       IN  \E dies \in Fates(r.m) :
             /\ heap' = r.m.heap
             /\ crashed' = dies
             /\ conv' = [op |-> "round_trip", ty |-> in.ty, x |-> in.x,
                         tag |-> e.o.type, res |-> r.res]
    /\ UNCHANGED <<objVars, strVars, iterVars, funVars>>

\* let n = T::try_from(obj), T one of the narrower integer types.
Narrow(ty, in) ==
    /\ ~crashed
    /\ conv.op = "none"
    /\ LET e == Object_from(Mem, in)
           r == try_from_prim(e.m, e.o, ty)
       IN  \E dies \in Fates(r.m) :
             /\ heap' = r.m.heap
             /\ crashed' = dies
             /\ conv' = [op |-> "narrow", ty |-> IntTy(ty), x |-> in,
                         tag |-> e.o.type, res |-> r.res]
    /\ UNCHANGED <<objVars, strVars, iterVars, funVars>>

\* IntoIterator for Result<T, E>: the Ok value, or nothing.
Result_into_iter(res) == IF res.k = "ok" THEN <<res>> ELSE <<>>

\* iter.flat_map(u32::try_from): the items of every answer, one after the
\* other.
RECURSIVE flat_map_try_from(_, _, _)
flat_map_try_from(m, os, ty) ==
    IF os = <<>> THEN <<>>
    ELSE Result_into_iter(try_from_prim(m, Head(os), ty).res)
         \o flat_map_try_from(m, Tail(os), ty)

\* What nvim_get_proc_children may answer with: integers that are a u32,
\* integers that are none, and a value that is no integer.
ProcElems ==
    {IntH("i64", Pos(1)), IntH("i64", Pos(256)), IntH("i64", Neg(1)),
     IntH("i64", <<0, 1, 0, 0>>), Bool_in(TRUE)}
ProcLists == SeqsUpTo(ProcElems, MaxProcs)

Yielded(returned, seen) ==
    conv' = [op |-> "get_proc_children", returned |-> returned, seen |-> seen]

\* get_proc_children(pid): the Array nvim_get_proc_children answered with
\* (no error set), as the iterator procs.into_iter().flat_map(u32::try_from)
\* that the caller runs to its end.
GetProcChildren(procs) ==
    /\ ~crashed
    /\ conv.op = "none"
    /\ Yielded(procs,
               flat_map_try_from(Mem, [i \in 1..Len(procs) |->
                                          Object_from(Mem, procs[i]).o], "u32"))
    /\ UNCHANGED <<heap, crashed, objVars, strVars, iterVars, funVars>>

ConvNext ==
    \/ \E procs \in ProcLists : GetProcChildren(procs)
    \/ \E in \in ConvInputs : RoundTrip(in)
    \/ \E ty \in NarrowTypes :
         \E in \in {IntH("i64", v) : v \in I64s} \cup NoIntegers : Narrow(ty, in)

ConvSpec == Init /\ [][ConvNext]_vars

\* ------------------------------------------------- the closure program
\* A slot of the Lua registry holds the closure luaL_ref stored in it: its
\* kind, the state of the RefCell the closure captured (mutably borrowed;
\* the FnOnce taken out), whether a body was started, whether a call was
\* rejected, and whether luaL_unref was called on its index again.
Kinds == {"fn", "fn_mut", "fn_once"}
Frame(ref, via) == [ref |-> ref, via |-> via]
OnStack(ref) == \E i \in 1..Len(stack) : stack[i].ref = ref

\* luaL_ref: the registry stores the closure under an index not in use.
luaL_ref(rg) == CHOOSE r \in Refs : rg[r].st = "unregistered" /\
                    \A q \in Refs : rg[q].st = "unregistered" => r <= q

\* A plausible slip: from_fn_mut calls the closure without asking the
\* RefCell.
enter_mut_unchecked(slot) ==
    CASE slot.kind = "fn_once" ->
            IF slot.borrowed \/ slot.taken
            THEN [slot |-> slot, k |-> "more_than_once"]
            ELSE [slot |-> [slot EXCEPT !.taken = TRUE], k |-> "running"]
      [] OTHER -> [slot |-> slot, k |-> "running"]

\* A plausible slip: from_fn_once reads the closure and leaves it in the
\* cell.
enter_once_not_taken(slot) ==
    CASE slot.kind = "fn_mut" ->
            IF slot.borrowed THEN [slot |-> slot, k |-> "recursive"]
            ELSE [slot |-> [slot EXCEPT !.borrowed = TRUE], k |-> "running"]
      [] OTHER -> [slot |-> slot, k |-> "running"]

\* A plausible slip: from_fn_once keeps its closure borrowed while the
\* body runs, as from_fn_mut does, and never takes it out.
enter_once_borrowed(slot) ==
    CASE slot.kind = "fn_mut" ->
            IF slot.borrowed THEN [slot |-> slot, k |-> "recursive"]
            ELSE [slot |-> [slot EXCEPT !.borrowed = TRUE], k |-> "running"]
      [] slot.kind = "fn_once" ->
            IF slot.borrowed THEN [slot |-> slot, k |-> "more_than_once"]
            ELSE [slot |-> [slot EXCEPT !.borrowed = TRUE], k |-> "running"]
      [] OTHER -> [slot |-> slot, k |-> "running"]

\* What the closure stored by from_fn, from_fn_mut and from_fn_once does
\* before the body runs.  from_fn_mut: try_borrow_mut, or the error
\* LuaFunMutRecursiveCallback; the borrow lasts for the body.
\* from_fn_once: try_borrow_mut and take() (the borrow ends there), or the
\* error LuaFunOnceMoreThanOnce.
enter(slot) ==
    CASE slot.kind = "fn_mut" ->
            IF slot.borrowed THEN [slot |-> slot, k |-> "recursive"]
            ELSE [slot |-> [slot EXCEPT !.borrowed = TRUE], k |-> "running"]
      [] slot.kind = "fn_once" ->
            IF slot.borrowed \/ slot.taken
            THEN [slot |-> slot, k |-> "more_than_once"]
            ELSE [slot |-> [slot EXCEPT !.taken = TRUE], k |-> "running"]
      [] OTHER -> [slot |-> slot, k |-> "running"]

\* A plausible slip: the borrow outlives the body.
leave_borrowed(slot) == slot

\* The body has returned: the RefMut of from_fn_mut is dropped with the
\* statement that called the body.
leave(slot) == [slot EXCEPT !.borrowed = FALSE]

\* luaL_unref(lstate, LUA_REGISTRYINDEX, ref): the index is freed.
luaL_unref(slot) ==
    [slot EXCEPT !.st = "released", !.again = (slot.st = "released")]

RECURSIVE Sum(_, _)
Sum(f, S) == IF S = {} THEN 0
             ELSE LET x == CHOOSE y \in S : TRUE IN f[x] + Sum(f, S \ {x})
Handles == Sum(hands, Refs)

\* A plausible slip: the message is pushed and returned as a result.
handle_error_returns(err) == [boundary |-> "count", msg |-> err]

\* handle_error: lua_pushlstring of the error's text, then lua_error, which
\* does not return.
handle_error(err) == [boundary |-> "lua_error", msg |-> err]

\* c_fun: fun(lstate).unwrap_or_else(|err| handle_error(lstate, err)).  The
\* boxed closure is |l| fun(A::pop(l)?)?.push(l): its Err is the error of
\* pop, of the closure or of push, its Ok the number of results pushed.
c_fun(err) ==
    IF err = "none" THEN [boundary |-> "count", msg |-> "none"]
    ELSE handle_error(err)

FOut(op, ref, slot, k, reached) ==
    [op |-> op, ref |-> ref, kind |-> slot.kind, k |-> k,
     ran |-> k = "running", reached |-> reached,
     active |-> OnStack(ref), first |-> ~slot.started, was |-> slot.st,
     rejected |-> slot.rejected, err |-> "none", boundary |-> "none",
     msg |-> "none", returned |-> FALSE, top |-> 0]

\* The invocation is over: what the closure answered with, what c_fun gave
\* the runtime, and, for LuaFun::call, that it returned to its caller, with
\* how many values more on the Lua stack than it found.
Ended(out, err, via, top) ==
    [out EXCEPT !.err = err, !.boundary = c_fun(err).boundary,
                !.msg = c_fun(err).msg, !.returned = (via = "call"), !.top = top]

\* LuaFun::from_fn, from_fn_mut, from_fn_once: the closure is boxed into a
\* userdata, made a C closure and stored with luaL_ref; the handle keeps
\* the index.
Install(kind) ==
    /\ ~crashed
    /\ \E r \in Refs : reg[r].st = "unregistered"
    /\ Handles < MaxHandles
    /\ LET r == luaL_ref(reg)
       IN  /\ reg' = [reg EXCEPT ![r] = [NoSlot EXCEPT !.st = "registered",
                                                       !.kind = kind]]
           /\ hands' = [hands EXCEPT ![r] = @ + 1]
           /\ fout' = [NoFOut EXCEPT !.op = "install", !.ref = r]
    /\ UNCHANGED <<stack, heap, crashed, objVars, strVars, iterVars, convVars>>

\* fun.clone() (derive(Clone)), or the same reference decoded again: a
\* second handle with the same index.
CloneHandle(r) ==
    /\ ~crashed
    /\ hands[r] > 0
    /\ Handles < MaxHandles
    /\ hands' = [hands EXCEPT ![r] = @ + 1]
    /\ fout' = [NoFOut EXCEPT !.op = "clone", !.ref = r]
    /\ UNCHANGED <<reg, stack, heap, crashed, objVars, strVars, iterVars, convVars>>

\* The trampoline c_fun runs the closure of slot r with arguments of the
\* closure's type, so A::pop answers Ok and the closure is reached.  A
\* rejected invocation ends at once: lua_pcall turns the Lua error into
\* LUA_ERRRUN, and LuaFun::call pops the message.
Begin(op, r) ==
    /\ Len(stack) < MaxDepth
    /\ LET e == enter(reg[r])
       IN  IF e.k = "running"
           THEN /\ reg' = [reg EXCEPT ![r] = [e.slot EXCEPT !.started = TRUE]]
                /\ stack' = <<Frame(r, op)>> \o stack
                /\ fout' = FOut(op, r, reg[r], e.k, TRUE)
           ELSE /\ reg' = [reg EXCEPT ![r] = [e.slot EXCEPT !.rejected = TRUE]]
                /\ fout' = Ended(FOut(op, r, reg[r], e.k, TRUE), e.k, op, 0)
                /\ UNCHANGED stack

\* fun.call(args) through a handle with index r: lua_rawgeti of the index,
\* args.push and lua_pcall.  An index that was released holds nil, and
\* calling nil is a Lua runtime error, whose message is popped.
Call(r) ==
    /\ ~crashed
    /\ hands[r] > 0
    /\ IF reg[r].st = "registered"
       THEN Begin("call", r)
       ELSE /\ fout' = [FOut("call", r, reg[r], "lua_runtime_error", TRUE)
                        EXCEPT !.returned = TRUE]
            /\ UNCHANGED <<reg, stack>>
    /\ UNCHANGED <<hands, heap, crashed, objVars, strVars, iterVars, convVars>>

\* fun.call(args) when args.push(lstate) answers Err: `?` returns it at
\* once, after lua_rawgeti has pushed the function.
CallPushFails(r) ==
    /\ ~crashed
    /\ hands[r] > 0
    /\ fout' = [FOut("call_args", r, reg[r], "push_args_err", TRUE)
                EXCEPT !.returned = TRUE, !.top = 1]
    /\ UNCHANGED <<reg, stack, hands, heap, crashed, objVars, strVars, iterVars,
                   convVars>>

\* The foreign runtime calls the closure it was given (a command, an
\* autocommand, a mapping), possibly from inside a running body.
Callback(r) ==
    /\ ~crashed
    /\ reg[r].st = "registered"
    /\ Begin("callback", r)
    /\ UNCHANGED <<hands, heap, crashed, objVars, strVars, iterVars, convVars>>

\* The foreign runtime calls the closure with arguments A::pop rejects:
\* the closure is not reached.
CallbackBadArgs(r) ==
    /\ ~crashed
    /\ reg[r].st = "registered"
    /\ fout' = Ended(FOut("bad_args", r, reg[r], "pop_err", TRUE), "pop_err",
                     "callback", 0)
    /\ UNCHANGED <<reg, stack, hands, heap, crashed, objVars, strVars, iterVars,
                   convVars>>

\* The innermost body returns Ok or Err; an Ok result is pushed, which may
\* fail too.  c_fun gives the answer to the runtime after the closure has
\* returned; LuaFun::call pops the results or the message.
Return(res, push) ==
    /\ ~crashed
    /\ stack # <<>>
    /\ res = "err" => push = "ok"
    /\ LET r == Head(stack).ref
           err == IF res = "err" THEN "err"
                  ELSE IF push = "fail" THEN "push_err" ELSE "none"
       IN  /\ reg' = [reg EXCEPT ![r] = leave(@)]
           /\ fout' = Ended(FOut("return", r, reg[r], res, FALSE), err,
                            Head(stack).via, 0)
    /\ stack' = Tail(stack)
    /\ UNCHANGED <<hands, heap, crashed, objVars, strVars, iterVars, convVars>>

\* The innermost body panics.  Nothing between the closure and the runtime
\* catches the unwind: it leaves c_fun, an extern "C" function, where the
\* build either aborts the process or unwinds into the runtime's frames.
Panic(fate) ==
    /\ ~crashed
    /\ stack # <<>>
    /\ fout' = [FOut("panic", Head(stack).ref, reg[Head(stack).ref], "panic", FALSE)
                EXCEPT !.err = "panic", !.boundary = fate]
    /\ crashed' = TRUE
    /\ UNCHANGED <<reg, stack, hands, heap, objVars, strVars, iterVars, convVars>>

\* fun.unref() on a handle with index r: the handle is consumed and its
\* index released.
Unref(r) ==
    /\ ~crashed
    /\ hands[r] > 0
    /\ reg' = [reg EXCEPT ![r] = luaL_unref(@)]
    /\ hands' = [hands EXCEPT ![r] = @ - 1]
    /\ fout' = [NoFOut EXCEPT !.op = "unref", !.ref = r]
    /\ UNCHANGED <<stack, heap, crashed, objVars, strVars, iterVars, convVars>>

FunNext ==
    \/ \E kind \in Kinds : Install(kind)
    \/ \E r \in Refs : CloneHandle(r)
    \/ \E r \in Refs : Call(r)
    \/ \E r \in Refs : CallPushFails(r)
    \/ \E r \in Refs : Callback(r)
    \/ \E r \in Refs : CallbackBadArgs(r)
    \/ \E res \in {"ok", "err"}, push \in {"ok", "fail"} : Return(res, push)
    \/ \E fate \in {"abort", "unwind"} : Panic(fate)
    \/ \E r \in Refs : Unref(r)

FunSpec == Init /\ [][FunNext]_vars

\* ===================================================== the properties
Released(x) == heap[x].rel
Untouched(x) == heap[x].st = last.pre[x].st /\ heap[x].rel = last.pre[x].rel
\* x was released once, as the kind of block it is.
ReleasedOnceAsItself(x) ==
    /\ heap[x].st = "freed"
    /\ Len(heap[x].rel) = 1
    /\ heap[x].rel[1].kind = heap[x].kind
PayloadKind(tag) ==
    CASE tag = "string" -> "bytes"
      [] tag = "array" -> "objs"
      [] tag = "dictionary" -> "kvs"
      [] OTHER -> "none"
\* The answer of the accessor `acc` to a value of another tag.
Mismatch == last.op = "try_from" /\ last.acc # last.obj.type

\* C1: an Object of tag T given to T's accessor answers Ok with the payload
\* it was built from; given to any other accessor it answers the Primitive
\* error with expected = the accessor's tag and actual = T.
C1_TagSafety ==
    last.op = "try_from" =>
        IF last.acc = last.obj.type
        THEN /\ last.res.k = "ok"
             /\ Abs(heap, last.res.val) = Abs(last.pre, last.obj)
        ELSE last.res = Primitive(last.acc, last.obj.type)

\* C2: an accessor reads an arm of the union only when the tag names that
\* arm; on a mismatch it reads none.
C2_ReadsOnlyTheTaggedArm ==
    last.op = "try_from" => last.reads \subseteq {last.obj.type}

\* C3: dropping an Object releases exactly the blocks it owns (its buffer
\* and, recursively, those of its elements), each once and as the kind of
\* block its tag says; a nil, boolean, integer, float or luaref Object owns
\* none and releases none.
C3_DropReleasesByTag ==
    last.op = "drop" =>
        /\ \A x \in Addrs :
              IF x \in last.own THEN ReleasedOnceAsItself(x) ELSE Untouched(x)
        /\ last.obj.type \in {"string", "array", "dictionary"} =>
              \A x \in last.own \cap {last.obj.w[1]} :
                  heap[x].rel[1].kind = PayloadKind(last.obj.type)
        /\ last.obj.type \notin {"string", "array", "dictionary"} => last.own = {}

C3_Witness ==
    /\ last.op = "drop"
    /\ last.obj.type = "array"
    /\ Cardinality(last.own) >= 3
    /\ \A x \in last.own : ReleasedOnceAsItself(x)
    /\ ~crashed

\* C4: an accessor that fails on a tag mismatch answers the Primitive error
\* without crashing, and the consumed Object's payload is released exactly
\* once, as what it is; nothing else is released.
C4_MismatchIsSafe ==
    Mismatch =>
        /\ ~crashed
        /\ last.res = Primitive(last.acc, last.obj.type)
        /\ \A x \in Addrs :
              IF x \in last.own THEN ReleasedOnceAsItself(x) ELSE Untouched(x)

\* C5: whatever views are made of an owned value, lent to foreign calls and
\* dropped, no view operation releases anything; the payload stays
\* allocated as long as its owner lives and is released exactly once, by
\* the owner's drop (in set_var: of name and of value).
C5_ViewsReleaseNothing ==
    /\ objs["a"] # NoObj =>
          \A x \in Owned(heap, objs["a"]) : heap[x].st = "live" /\ heap[x].rel = <<>>
    /\ last.op \in {"non_owning", "foreign_call", "drop_view"} =>
          ~crashed /\ \A x \in Addrs : Untouched(x)
    /\ (last.op = "drop" /\ last.slot = "a") =>
          \A x \in last.own : ReleasedOnceAsItself(x)
    /\ last.op = "set_var" =>
          /\ last.own # {}
          /\ \A x \in Addrs :
                IF x \in last.own THEN ReleasedOnceAsItself(x)
                ELSE heap[x].st = "unalloc"

C5_Witness ==
    /\ last.op = "drop_view"
    /\ views # <<>>
    /\ objs["a"].type = "array"
    /\ Cardinality(Owned(heap, objs["a"])) >= 2
    /\ \A x \in Owned(heap, objs["a"]) : heap[x].st = "live"

\* C6: a clone has the tag and the value of its original; the clone of a
\* string, array or dictionary owns blocks of its own, all new, none shared
\* with the original, so that either may be dropped first and leaves the
\* other's blocks alone; the clone of a nil, boolean, integer, float or
\* luaref allocates nothing.
C6_CloneIsDeep ==
    /\ last.op = "clone" =>
          /\ objs["b"].type = objs["a"].type
          /\ Abs(heap, objs["b"]) = Abs(heap, objs["a"])
          /\ Owned(heap, objs["b"]) \cap Owned(heap, objs["a"]) = {}
          /\ Owned(heap, objs["b"]) = Live(heap) \ Live(last.pre)
          /\ Cardinality(Owned(heap, objs["b"])) = CloneNeed(last.pre, objs["a"])
          /\ objs["a"].type \notin {"string", "array", "dictionary"} =>
                \A x \in Addrs : Untouched(x)
          /\ objs["a"].type = "string" => Owned(heap, objs["b"]) # {}
    /\ last.op = "drop" =>
          \A s \in Slots : \A x \in Owned(heap, objs[s]) :
              heap[x].st = "live" /\ heap[x].rel = <<>>

C6_Witness ==
    /\ last.op = "drop"
    /\ last.slot = "a"
    /\ last.obj.type = "array"
    /\ last.own # {}
    /\ built["b"] = Arr_in(<<Str_in(<<97>>, 0), Nil_in>>)
    /\ Abs(heap, objs["b"]) = Abs(last.pre, last.obj)
    /\ Cardinality(Owned(heap, objs["b"])) = 2

\* C7: two Objects are equal exactly when they have the same tag and equal
\* payloads by the tag's rule: integers by their 64-bit values, floats by
\* f64's ==, strings by their bytes, collections element by element.
ValEq(x, y) ==
    /\ x.t = y.t
    /\ IF x.t = "float" THEN f64_eq(x.f, y.f) ELSE x = y
C7_EqualityByTagAndPayload ==
    last.op = "eq" =>
        (last.res.val = from_Boolean(TRUE))
            <=> ValEq(Abs(heap, objs["a"]), Abs(heap, objs["b"]))

\* C8: every String made by from_bytes or a constructor over it (Clone and
\* the From impls) has size = the length of the bytes it was made from,
\* holds those bytes followed by a 0 at offset size, and sits in a block
\* whose capacity is size + 1, the capacity String's Drop releases it with.
C8_BufferInvariant ==
    \A slot \in StrSlots :
        strs[slot].how \notin {"none", "default"} =>
            LET s == strs[slot].s
                b == heap[s.data]
            IN  /\ s.size = Len(strs[slot].in)
                /\ b.st = "live"
                /\ SubSeq(b.data, 1, s.size) = strs[slot].in
                /\ b.data[s.size + 1] = 0
                /\ b.cap = s.size + 1

\* C9: from_bytes(v).into_bytes() is v: the same length and the same
\* bytes, without the terminator, for the empty vector, for vectors with
\* zero bytes inside and for vectors that are not UTF-8.
C9_BytesRoundTrip ==
    sout.op = "into_bytes" =>
        /\ sout.k = "ok"
        /\ sout.bytes = sout.in
        /\ vecs.len = Len(sout.in)
        /\ Vec_bytes(heap, vecs) = sout.in

C9_Witness ==
    /\ sout.op = "into_bytes"
    /\ sout.in = <<0, 195, 97>>
    /\ sout.bytes = <<0, 195, 97>>
    /\ ~utf8_valid(sout.in)
    /\ vecs.len = 3

\* C10: the strict conversions (as_str, into_string, TryFrom<String> for
\* StdString) answer the bytes unchanged when they are UTF-8 and the
\* invalid-encoding error otherwise, with no text; to_string_lossy always
\* answers a text, the bytes unchanged when they are UTF-8 and otherwise
\* with the replacement character where the invalid sequences were.
StrictOps == {"as_str", "into_string", "try_from"}
HasReplacement(bs) ==
    \E i \in 1..(Len(bs) - 2) : SubSeq(bs, i, i + 2) = Replacement
C10_StrictAndLossyText ==
    /\ sout.op \in StrictOps =>
          IF utf8_valid(sout.in)
          THEN sout.k = "ok" /\ sout.bytes = sout.in
          ELSE sout.k = "invalid_utf8" /\ sout.bytes = <<>>
    /\ sout.op = "to_string_lossy" =>
          /\ sout.k = "ok"
          /\ utf8_valid(sout.bytes)
          /\ utf8_valid(sout.in) => sout.bytes = sout.in
          /\ ~utf8_valid(sout.in) =>
                /\ HasReplacement(sout.bytes)
                /\ sout.bytes # sout.in

C10_Witness ==
    /\ sout.op = "to_string_lossy"
    /\ sout.in = <<97, 195>>
    /\ sout.bytes = <<97>> \o Replacement
    /\ as_str(heap, strs["s"].s).k = "invalid_utf8"

\* The plain value under the Some layers of an item, or None.
RECURSIVE Unwrap(_)
Unwrap(x) == IF x.t = "some" THEN Unwrap(x.v) ELSE x
Present(x) == Unwrap(x).t \notin {"absent", "nil"}

\* C11: Array::from_iter keeps exactly the items whose Object is not nil,
\* converted, in their input order; the Array's length is their number.
C11_FromIterDropsNil ==
    arr.st = "built" =>
        LET kept == SelectSeq(arr.src, Present)
        IN  /\ arr.c.size = Len(kept)
            /\ Len(arr.elems) = Len(kept)
            /\ \A i \in 1..Len(kept) :
                  Abs(heap, arr.elems[i].o) = ValueOf(Unwrap(kept[i]))

C11_Witness ==
    /\ arr.st = "built"
    /\ arr.src = <<Some(Int_in(1)), None, Some(Int_in(257))>>
    /\ arr.c.size = 2
    /\ Abs(heap, arr.elems[2].o) = Int_in(257)

\* C12: once k elements were yielded and the iterator is dropped, the
\* blocks of a yielded element stay allocated until the caller drops it
\* (and are then released once), and the blocks of every element not
\* yielded are released once by the iterator's drop; while the iterator
\* lives it releases nothing.
C12_IteratorDropReleasesTheRest ==
    iter.st # "none" =>
        /\ ~crashed
        /\ \A i \in 1..Len(arr.elems) : \A x \in arr.elems[i].own :
              IF i <= iter.start.off
              THEN IF got[i] # NoObj
                   THEN heap[x].st = "live" /\ heap[x].rel = <<>>
                   ELSE ReleasedOnceAsItself(x)
              ELSE IF iter.st = "live"
                   THEN heap[x].st = "live" /\ heap[x].rel = <<>>
                   ELSE ReleasedOnceAsItself(x)

C12_Witness ==
    /\ iter.st = "dropped"
    /\ iout.op = "drop_iter"
    /\ Len(arr.elems) = 3
    /\ iter.start.off = 1
    /\ got[1] # NoObj
    /\ \A x \in arr.elems[1].own : heap[x].st = "live"
    /\ arr.elems[2].own # {} /\ arr.elems[3].own # {}
    /\ \A x \in arr.elems[2].own \cup arr.elems[3].own : heap[x].st = "freed"

\* C13: the iterator yields the elements of the Array in order, each once,
\* and None once all were yielded; len() (size_hint, count) is the number
\* of elements not yet yielded.
C13_IteratorYieldsInOrder ==
    /\ Len(got) <= arr.c.size
    /\ iter.st = "live" =>
          /\ Len(got) = iter.start.off
          /\ \A i \in 1..Len(got) : got[i] = arr.elems[i].o
    /\ iout.op = "next" =>
          IF iout.some
          THEN iout.n = Len(got) /\ iout.item = arr.elems[iout.n].o
          ELSE Len(got) = arr.c.size
    /\ iout.op \in {"len", "count"} => iout.n = arr.c.size - Len(got)

C13_Witness ==
    /\ iout.op = "next"
    /\ ~iout.some
    /\ arr.c.size = 3
    /\ Len(got) = 3
    /\ got[3] = arr.elems[3].o

\* Equality (==) of two host values: floats by f64's ==, options and
\* sequences through their contents, everything else by value.
RECURSIVE HostEq(_, _)
HostEq(x, y) ==
    IF x.t # y.t THEN FALSE
    ELSE CASE x.t = "float" -> f64_eq(x.f, y.f)
           [] x.t = "some" -> HostEq(x.v, y.v)
           [] x.t = "vec" -> /\ Len(x.xs) = Len(y.xs)
                             /\ \A i \in 1..Len(x.xs) : HostEq(x.xs[i], y.xs[i])
           [] OTHER -> x = y

\* The host values the encoding keeps apart: no NaN, no Some whose content
\* encodes as nil, no sequence with an element that encodes as nil.
RECURSIVE Faithful(_)
Faithful(x) ==
    CASE x.t = "float" -> x.f # 3
      [] x.t = "some" -> Present(x.v) /\ Faithful(x.v)
      [] x.t = "vec" -> \A i \in 1..Len(x.xs) : Present(x.xs[i]) /\ Faithful(x.xs[i])
      [] OTHER -> TRUE

RoundTripped == conv.res.k = "ok" /\ HostEq(conv.res.x, conv.x)

\* C14 as stated: T::try_from(Object::from(x)) == Ok(x) for every host
\* value x: booleans, integers of every width, floats, texts, optionals
\* (nested ones too) and sequences of them.
C14_RoundTripAlways ==
    conv.op = "round_trip" => RoundTripped

\* C14 amended: T::try_from(Object::from(x)) == Ok(x) holds for exactly the
\* host values that hold no NaN, no Some(None) (nor any Some whose content
\* encodes as nil) and no sequence with an absent element; booleans,
\* integers of every width, texts, None, Some of such values and sequences
\* of such values all come back equal.
C14_RoundTripOfFaithfulValues ==
    conv.op = "round_trip" =>
        /\ ~crashed
        /\ RoundTripped <=> Faithful(conv.x)

C14_Witness ==
    /\ conv.op = "round_trip"
    /\ conv.x = Some(Some(IntH("i64", Pos(1))))
    /\ conv.tag = "integer"
    /\ conv.res = OkH(conv.x)

\* Whether an i64 lies in the range of the type, read off its limbs.
InRange(ty, v) ==
    LET zeros(n) == \A i \in 1..n : v[i] = 0
        ones(n) == \A i \in 1..n : v[i] = F
    IN  CASE ty = "u8" -> zeros(3) /\ v[4] <= 255
          [] ty = "i8" -> (zeros(3) /\ v[4] <= 127) \/ (ones(3) /\ v[4] >= 65408)
          [] ty = "u16" -> zeros(3)
          [] ty = "i16" -> (zeros(3) /\ v[4] <= 32767) \/ (ones(3) /\ v[4] >= 32768)
          [] ty = "u32" -> zeros(2)
          [] ty = "i32" -> (zeros(2) /\ v[3] <= 32767) \/ (ones(2) /\ v[3] >= 32768)
          [] ty \in {"u64", "usize"} -> v[1] <= 32767
          [] OTHER -> TRUE

\* The i64 a host integer stands for.
Widen(x) ==
    LET n == Len(x.l)
        neg == Signed(x.ty) /\ x.l[1] >= (IF Bits(x.ty) = 8 THEN 128 ELSE 32768)
    IN  IF n = 4 THEN x.l
        ELSE IF ~neg THEN [i \in 1..4 |-> IF i <= 4 - n THEN 0 ELSE x.l[i - (4 - n)]]
        ELSE [i \in 1..4 |->
                IF i <= 4 - n THEN F
                ELSE IF Bits(x.ty) = 8 THEN 65280 + x.l[1]
                ELSE x.l[i - (4 - n)]]

\* C15: an integer Object decodes into i8, u8, i16, u16, i32, u32, u64,
\* usize or isize with the same numeric value exactly when its value is in
\* the type's range, and otherwise answers Secondary with primitive =
\* integer and the name of the type; an Object that is no integer answers
\* the Primitive mismatch.
C15_NarrowingIsChecked ==
    conv.op = "narrow" =>
        /\ ~crashed
        /\ IF conv.tag # "integer"
           THEN conv.res = PrimitiveH("integer", conv.tag)
           ELSE IF InRange(conv.ty.ty, conv.x.l)
           THEN /\ conv.res.k = "ok"
                /\ conv.res.x.ty = conv.ty.ty
                /\ Len(conv.res.x.l) = (IF Bits(conv.ty.ty) <= 16 THEN 1
                                        ELSE Bits(conv.ty.ty) \div 16)
                /\ Widen(conv.res.x) = conv.x.l
           ELSE conv.res = secondary("integer", conv.ty.ty)

C15_Witness ==
    /\ conv.op = "narrow"
    /\ conv.ty = IntTy("u8")
    /\ conv.x = IntH("i64", Pos(256))
    /\ conv.res = secondary("integer", "u8")


Invoked == fout.op \in {"call", "callback"} /\ fout.was = "registered"

\* C16: a closure installed with from_fn or from_fn_mut runs its body at
\* every invocation (with arguments of its type) that starts while no
\* invocation of it is running, also
\* after a re-entrant invocation of it was rejected, and the body's own
\* result is what the invocation returns.
C16_CallableAgainAndAgain ==
    /\ (Invoked /\ fout.kind \in {"fn", "fn_mut"} /\ ~fout.active)
           => (fout.k = "running" /\ fout.ran /\ stack # <<>> /\
               Head(stack).ref = fout.ref)
    /\ (fout.op = "return" /\ fout.kind \in {"fn", "fn_mut"})
           => fout.k \in {"ok", "err"}

C16_Witness ==
    /\ Invoked /\ fout.kind = "fn_mut" /\ ~fout.active
    /\ fout.rejected /\ ~fout.first /\ fout.k = "running"

\* C17: the first invocation of a closure installed with from_fn_once runs
\* the body; every later invocation fails with LuaFunOnceMoreThanOnce and
\* the body is not run, so the body is started at most once.
C17_OnceRunsOnce ==
    /\ (Invoked /\ fout.kind = "fn_once")
           => IF fout.first THEN fout.k = "running"
              ELSE fout.k = "more_than_once" /\ ~fout.ran
    /\ \A r \in Refs : reg[r].kind = "fn_once" =>
           /\ reg[r].taken = reg[r].started
           /\ Cardinality({i \in 1..Len(stack) : stack[i].ref = r}) <= 1

C17_Witness ==
    /\ Invoked /\ fout.kind = "fn_once" /\ ~fout.active
    /\ ~fout.first /\ fout.k = "more_than_once" /\ stack = <<>>

\* C18: an invocation of a from_fn_mut closure that starts while its body
\* is running fails with LuaFunMutRecursiveCallback and runs no body; at
\* most one body of the closure is active, and the outer invocation stays
\* active and returns its own result.
C18_ReentrantCallRejected ==
    /\ (Invoked /\ fout.kind = "fn_mut" /\ fout.active)
           => (fout.k = "recursive" /\ ~fout.ran /\ OnStack(fout.ref) /\
               reg[fout.ref].borrowed)
    /\ \A r \in Refs : reg[r].kind = "fn_mut" =>
           /\ Cardinality({i \in 1..Len(stack) : stack[i].ref = r}) <= 1
           /\ reg[r].borrowed = OnStack(r)
    /\ (fout.op = "return" /\ fout.kind = "fn_mut" /\ fout.rejected)
           => fout.k \in {"ok", "err"}

C18_Witness ==
    /\ fout.op = "return" /\ fout.kind = "fn_mut" /\ fout.rejected
    /\ fout.k = "ok" /\ ~reg[fout.ref].borrowed

\* C19: a call through a handle whose slot was released fails with the
\* error that says the handle was released, and lua_rawgeti and lua_pcall
\* are not reached with the freed index.
C19_CallAfterReleaseIsRefused ==
    (fout.op = "call" /\ fout.was = "released")
        => (fout.k = "handle_released" /\ ~fout.reached)

\* C20: a slot goes unregistered -> registered -> released and never back;
\* luaL_unref is called on its index at most once over all the handles
\* that carry it.
C20_SlotReleasedAtMostOnce ==
    \A r \in Refs :
        /\ ~reg[r].again
        /\ reg[r].st = "unregistered" => (~reg[r].started /\ reg[r].kind = "none")


\* C28: once the consuming iterator of an Array is dropped, the block that
\* held the Array's elements is released, exactly once.
C28_IteratorDropReleasesTheBuffer ==
    (iter.st = "dropped" /\ arr.c.capacity > 0) =>
        /\ heap[arr.c.items].st = "freed"
        /\ Len(heap[arr.c.items].rel) = 1

FieldValue(x) == IF Present(x) THEN ValueOf(Unwrap(x)) ELSE [t |-> "nil"]

\* C30: the Array made of an n-tuple has n elements, element i being the
\* conversion of field i, nil for an absent optional.
C30_TupleKeepsEveryField ==
    iout.op = "from_tuple" =>
        /\ arr.c.size = Len(arr.src)
        /\ \A i \in 1..Len(arr.src) :
              /\ i <= Len(arr.elems)
              /\ Abs(heap, arr.elems[i].o) = FieldValue(arr.src[i])


\* C26: a String that holds no allocation (String::default()) releases
\* nothing: neither its drop nor into_bytes() on it asks the allocator to
\* release the null pointer.
C26_NullBufferReleasesNothing ==
    /\ ~crashed
    /\ heap[Null].rel = <<>>

\* C27: an allocation made by from_bytes is released once, with the
\* capacity it was allocated with, by Drop or by the vector into_bytes and
\* into_string hand it to; when every buffer and vector is gone none is
\* left allocated.
C27_ReleasedOnceWithItsCapacity ==
    /\ \A a \in Addrs :
          heap[a].st = "freed" =>
              heap[a].rel = <<[kind |-> "bytes", cap |-> heap[a].cap]>>
    /\ ((\A x \in StrSlots : strs[x].how = "none") /\ vecs = NoVec)
          => Live(heap) = {}

\* C29: a == b exactly when a.cmp(&b) is Equal; two buffers with the same
\* bytes compare Equal wherever they are stored.
C29_OrderAgreesWithEquality ==
    sout.op = "cmp" =>
        /\ sout.eq = (sout.k = "Equal")
        /\ sout.in = sout.bytes => sout.k = "Equal"


\* C23: for every element the foreign call returned the caller is given
\* either the decoded item or a typed failure: as many as were returned.
C23_NoDecodeFailureSwallowed ==
    conv.op = "get_proc_children" => Len(conv.seen) = Len(conv.returned)


\* C21: when the decoding of the arguments, the closure or the encoding of
\* its result answers with an error, or the closure's guard rejects the
\* invocation, c_fun raises a Lua error with that error's message; a
\* result count is returned only when there was no error.
C21_ErrorsBecomeLuaErrors ==
    fout.op \in {"call", "callback", "bad_args", "return"} =>
        /\ fout.err # "none" => (fout.boundary = "lua_error" /\ fout.msg = fout.err)
        /\ fout.boundary = "count" => fout.err = "none"
        /\ ~crashed

C21_Witness ==
    /\ fout.op = "return" /\ fout.k = "err" /\ fout.err = "err"
    /\ fout.boundary = "lua_error" /\ fout.msg = "err"

\* C22: a panic inside a registered closure is caught at the trampoline
\* and reaches the runtime as a Lua error; the process goes on.
C22_PanicBecomesLuaError ==
    fout.op = "panic" => (fout.boundary = "lua_error" /\ ~crashed)

\* C24: the body of a from_fn_once closure is started at most once, and
\* an invocation made while its first invocation is running is rejected
\* with LuaFunOnceMoreThanOnce without running the body.
C24_OnceBodyRunsAtMostOnce ==
    (Invoked /\ fout.kind = "fn_once") =>
        /\ fout.ran => fout.first
        /\ fout.active =>
              /\ fout.k = "more_than_once" /\ ~fout.ran
              /\ fout.err = "more_than_once"
              /\ OnStack(fout.ref)

C24_Witness ==
    /\ Invoked /\ fout.kind = "fn_once" /\ fout.active
    /\ fout.k = "more_than_once" /\ stack # <<>> /\ Head(stack).ref = fout.ref

\* C25: when LuaFun::call returns, the Lua stack is as deep as it was when
\* call was entered.
C25_CallLeavesTheStackBalanced ==
    fout.returned => fout.top = 0

====
